---- MODULE Spec2Model ----
(***************************************************************************)
(* Verification model of the UUF template application: the component      *)
(* lookup table (utils.js), the zone data model (data-structures.js) and   *)
(* the composition engine (rendering-handlebars-helpers.js) driven by the  *)
(* dynamic files router.                                                   *)
(*                                                                         *)
(* Strings of HTML are sequences of tokens; every token is a tuple of      *)
(* strings.  A JavaScript value that may be absent is a sequence of length *)
(* 0 (undefined / null) or 1 (the value).                                  *)
(***************************************************************************)
EXTENDS Integers, Sequences, FiniteSets, TLC

None == << >>
Some(v) == <<v>>

Last(s) == s[Len(s)]
Front(s) == SubSeq(s, 1, Len(s) - 1)
Range(s) == {s[i] : i \in DOMAIN s}

RECURSIVE IndexOfFrom(_, _, _)
IndexOfFrom(s, x, i) ==
    IF i > Len(s) THEN -1
    ELSE IF s[i] = x THEN i - 1
    ELSE IndexOfFrom(s, x, i + 1)

\* Array.prototype.indexOf: zero-based position of x in s, -1 when absent
indexOf(s, x) == IndexOfFrom(s, x, 1)

RECURSIVE Flatten(_)
Flatten(ss) == IF ss = << >> THEN << >> ELSE Head(ss) \o Flatten(Tail(ss))

(***************************************************************************)
(* HTML text                                                               *)
(***************************************************************************)
Txt(c) == <<"txt", c>>
WS == <<"ws">>

RECURSIVE TrimLeft(_)
TrimLeft(s) ==
    IF s = << >> THEN s
    ELSE IF Head(s) = WS THEN TrimLeft(Tail(s)) ELSE s

RECURSIVE TrimRight(_)
TrimRight(s) ==
    IF s = << >> THEN s
    ELSE IF Last(s) = WS THEN TrimRight(Front(s)) ELSE s

\* String.prototype.trim
trim(s) == TrimRight(TrimLeft(s))

(***************************************************************************)
(* parseBoolean: a value is <<"undefined">>, <<"boolean", "true"|"false">> *)
(* or <<"string", s>>.                                                     *)
(***************************************************************************)
Undefined == <<"undefined">>
BoolV(b) == <<"boolean", IF b THEN "true" ELSE "false">>
StrV(s) == <<"string", s>>

toLowerCase(s) ==
    CASE s = "TRUE" -> "true"
      [] s = "Yes" -> "yes"
      [] s = "FALSE" -> "false"
      [] OTHER -> s

parseBoolean(obj, defaultValue) ==
    CASE obj[1] = "boolean" -> obj[2] = "true"
      [] obj[1] = "string" -> toLowerCase(obj[2]) \in {"true", "yes"}
      [] OTHER -> defaultValue

(***************************************************************************)
(* Component definitions (the <short_name>.json files).  A definition maps *)
(* every key to None or Some(value); a scalar value is StrV(s) or BoolV(b) *)
(* (the index a number), an array value is a sequence of strings.          *)
(***************************************************************************)
DefKeys == {"extends", "version", "disabled", "permissions", "index", "uri", "layout",
            "pushedUris", "isAnonymous"}
ArrayKeys == {"permissions", "pushedUris"}

EmptyDef == [k \in DefKeys |-> None]
Def(pairs) == [k \in DefKeys |-> IF k \in DOMAIN pairs THEN Some(pairs[k]) ELSE None]

\* Array.isArray on the value v of key k: only the keys of ArrayKeys ever hold
\* an array, and an array of strings never starts with a type tag
IsArray(k, v) == k \in ArrayKeys /\ (v = << >> \/ v[1] \notin {"string", "boolean"})

\* variant: the parent's scalar value replaces the child's
extendParentWins(child, parent) ==
    [k \in DefKeys |-> IF parent[k] = None THEN child[k] ELSE parent[k]]

\* extend(child, parent) on flat definitions
extend(child, parent) ==
    [k \in DefKeys |->
        IF parent[k] = None THEN child[k]
        ELSE IF IsArray(k, parent[k][1]) THEN parent[k]
        ELSE IF child[k] = None THEN parent[k]
        ELSE child[k]]

(***************************************************************************)
(* Component repository builder (utils.js)                                 *)
(***************************************************************************)
DefaultIndex == 1000000

\* String.prototype.localeCompare on the component names in use
NameOrder == <<"pA", "pB", "pC", "pD", "uA", "uB", "uC", "uD", "uE", "uF">>
localeCompare(a, b) ==
    LET ra == indexOf(NameOrder, a)
        rb == indexOf(NameOrder, b)
    IN IF ra = rb THEN 0 ELSE IF ra > rb THEN 1 ELSE -1

\* the object literal created for each component directory
NewUiComponent(dir) ==
    [fullName |-> dir.fullName,
     index |-> DefaultIndex,
     templateFilePath |-> dir.hasTemplate,
     scriptFilePath |-> dir.hasScript,
     definition |-> dir.definition,
     parents |-> << >>,
     children |-> << >>]

\* variant: only the component named by extends gets c as a child
ChainIterationDirect(m, c, pn) ==
    LET m1 == IF m[c].parents = << >> THEN [m EXCEPT ![pn].children = Append(@, c)] ELSE m
    IN [m1 EXCEPT ![c].parents = Append(@, pn),
                  ![c].definition = extend(@, m1[pn].definition)]

\* one pass of the body of 'while (parentComponentFullName)' for component c
\* and the existing parent pn
ChainIteration(m, c, pn) ==
    LET m1 == [m EXCEPT ![pn].children = Append(@, c)]
    IN [m1 EXCEPT ![c].parents = Append(@, pn),
                  ![c].definition = extend(@, m1[pn].definition)]

\* the error thrown for a parent that does not exist
NoParentError(m, c, pn) ==
    <<"parent does not exist", pn,
      IF m[c].parents = << >> THEN c ELSE Last(m[c].parents)>>

\* the while loop that walks the extends references of component c.  The loop
\* has no end when the references come back to a parent already walked:
\* status "loop" stands for the call that never returns.
RECURSIVE ChainWalk(_, _, _)
ChainWalk(m, c, parentName) ==
    IF parentName = None THEN [status |-> "ok", map |-> m]
    ELSE LET pn == parentName[1][2] IN
         IF pn \notin DOMAIN m
         THEN [status |-> "error", map |-> m, error |-> NoParentError(m, c, pn)]
         ELSE IF pn \in Range(m[c].parents) THEN [status |-> "loop", map |-> m]
         ELSE LET m2 == ChainIteration(m, c, pn)
              IN ChainWalk(m2, c, m2[pn].definition["extends"])

\* the 'Inheritance chaining' loop over the components in discovery order
RECURSIVE ChainAll(_, _, _)
ChainAll(m, names, i) ==
    IF i > Len(names) THEN [status |-> "ok", map |-> m]
    ELSE LET r == ChainWalk(m, names[i], m[names[i]].definition["extends"])
         IN IF r.status # "ok" THEN r ELSE ChainAll(r.map, names, i + 1)

compareRawUiComponents(a, b) ==
    LET aIndex == IF a.definition["index"] = None THEN DefaultIndex
                  ELSE a.definition["index"][1]
        bIndex == IF b.definition["index"] = None THEN DefaultIndex
                  ELSE b.definition["index"][1]
    IN IF aIndex = bIndex
       THEN IF aIndex = DefaultIndex THEN localeCompare(a.fullName, b.fullName)
            ELSE IF indexOf(a.children, b.fullName) >= 0 THEN 1
            ELSE IF indexOf(b.children, a.fullName) >= 0 THEN -1
            ELSE localeCompare(a.fullName, b.fullName)
       ELSE IF aIndex > bIndex THEN 1 ELSE -1

\* Array.prototype.sort of component names under compareRawUiComponents, for
\* names the comparator orders consistently
RECURSIVE InsertRaw(_, _, _)
InsertRaw(m, sorted, x) ==
    IF sorted = << >> THEN <<x>>
    ELSE IF compareRawUiComponents(m[x], m[Last(sorted)]) >= 0 THEN Append(sorted, x)
    ELSE Append(InsertRaw(m, Front(sorted), x), Last(sorted))

RECURSIVE SortRaw(_, _)
SortRaw(m, names) ==
    IF names = << >> THEN << >>
    ELSE InsertRaw(m, SortRaw(m, Front(names)), Last(names))

\* compareRawUiComponents is a consistent comparison function for the names
\* (ECMAScript 5.1, 15.4.4.11): the signs of the two directions are opposite
\* and 'before' is transitive
ConsistentComparison(m, names) ==
    \A a, b, c \in Range(names) :
        /\ compareRawUiComponents(m[a], m[b]) = 0 - compareRawUiComponents(m[b], m[a])
        /\ (compareRawUiComponents(m[a], m[b]) < 0
              /\ compareRawUiComponents(m[b], m[c]) < 0)
            => compareRawUiComponents(m[a], m[c]) < 0

\* every order of the names
Orderings(names) ==
    {p \in [DOMAIN names -> Range(names)] : Range(p) = Range(names)}

\* uiComponentsList.sort(compareRawUiComponents): the arrays the call can
\* leave.  With a comparator that is not consistent the order is whatever the
\* implementation of sort makes of it.
sort(m, names) ==
    IF ConsistentComparison(m, names) THEN {SortRaw(m, names)} ELSE Orderings(names)

\* componentFullName.substr(componentFullName.lastIndexOf(".") + 1) on the names
\* in use: only the name "u." ends with the dot
ShortName(componentFullName) == IF componentFullName = "u." THEN "" ELSE componentFullName

\* the loop over the directory listing: the first directory whose name has no
\* short name or that has no definition file ends the build
RECURSIVE GatherError(_, _)
GatherError(dirs, i) ==
    IF i > Len(dirs) THEN None
    ELSE IF ShortName(dirs[i].fullName) = ""
    THEN Some(<<"invalid name", dirs[i].fullName>>)
    ELSE IF ~dirs[i].hasDefinition
    THEN Some(<<"definition file does not exist", dirs[i].fullName>>)
    ELSE GatherError(dirs, i + 1)

\* uiComponentsMap and the names of uiComponentsList after the first loop
GatherNames(dirs) == [i \in DOMAIN dirs |-> dirs[i].fullName]
GatherMap(dirs) ==
    [n \in Range(GatherNames(dirs)) |->
        NewUiComponent(dirs[CHOOSE i \in DOMAIN dirs : dirs[i].fullName = n])]

\* getUiComponentsData: dirs is the directory listing, in listing order
getUiComponentsData(dirs) ==
    LET names == GatherNames(dirs)
        r == ChainAll(GatherMap(dirs), names, 1)
    IN IF GatherError(dirs, 1) # None
       THEN [status |-> "error", error |-> GatherError(dirs, 1), array |-> << >>]
       ELSE IF r.status = "error"
       THEN [status |-> "error", error |-> r.error, array |-> << >>]
       ELSE IF r.status # "ok" THEN [status |-> r.status, map |-> r.map, array |-> << >>]
       ELSE [status |-> "ok", map |-> r.map, array |-> SortRaw(r.map, names)]

\* the 'unit.index = i' / 'page.index = k + startingIndex' assignments
RECURSIVE AssignIndex(_, _, _, _)
AssignIndex(m, array, i, startingIndex) ==
    IF i > Len(array) THEN m
    ELSE AssignIndex([m EXCEPT ![array[i]].index = (i - 1) + startingIndex],
                     array, i + 1, startingIndex)

(***************************************************************************)
(* getLookupTable (utils.js)                                               *)
(***************************************************************************)
\* JavaScript truthiness of an optional definition value
Truthy(v) ==
    /\ v # None
    /\ v[1] # BoolV(FALSE)
    /\ v[1] # StrV("")

Valid == [success |-> TRUE, message |-> <<"valid">>]
Invalid(what, fullName) == [success |-> FALSE, message |-> <<what, fullName>>]

validateUnitDefinition(unit) ==
    IF ~Truthy(unit.definition["version"]) THEN Invalid("no version", unit.fullName)
    ELSE IF /\ Truthy(unit.definition["pushedUris"])
            /\ ~IsArray("pushedUris", unit.definition["pushedUris"][1])
    THEN Invalid("pushed URIs are not an array", unit.fullName)
    ELSE Valid

\* variant: only the URI of a page definition is looked at
validatePageDefinitionUriOnly(page, layoutsData) ==
    IF ~Truthy(page.definition["uri"]) THEN Invalid("no URI", page.fullName) ELSE Valid

validatePageDefinition(page, layoutsData) ==
    IF ~Truthy(page.definition["version"]) THEN Invalid("no version", page.fullName)
    ELSE IF ~Truthy(page.definition["uri"]) THEN Invalid("no URI", page.fullName)
    ELSE IF ~Truthy(page.definition["layout"]) THEN Invalid("no layout", page.fullName)
    ELSE IF page.definition["layout"][1][2] \notin layoutsData
    THEN Invalid("layout does not exist", page.fullName)
    ELSE Valid

\* variant: a component that is extended is handled like any other
IsExtendedNever(component) == FALSE

\* the test 'unit.children.length != 0' / 'page.children.length != 0'
IsExtended(component) == Len(component.children) # 0

\* an insertion-ordered object whose values are arrays: push v under key
PushUnder(obj, key, v) ==
    IF \E i \in DOMAIN obj : obj[i].key = key
    THEN [i \in DOMAIN obj |-> IF obj[i].key = key
                               THEN [obj[i] EXCEPT !.value = Append(@, v)] ELSE obj[i]]
    ELSE Append(obj, [key |-> key, value |-> <<v>>])

RECURSIVE PushAll(_, _, _)
PushAll(obj, keys, v) ==
    IF keys = << >> THEN obj ELSE PushAll(PushUnder(obj, Head(keys), v), Tail(keys), v)

\* the loop over the sorted units: pushedUnits so far, or the validation error
RECURSIVE UnitsLoop(_, _, _, _)
UnitsLoop(m, array, i, pushedUnits) ==
    IF i > Len(array) THEN [status |-> "ok", pushedUnits |-> pushedUnits]
    ELSE LET unit == m[array[i]] IN
         IF IsExtended(unit) THEN UnitsLoop(m, array, i + 1, pushedUnits)
         ELSE IF ~validateUnitDefinition(unit).success
         THEN [status |-> "error", pushedUnits |-> pushedUnits,
               error |-> validateUnitDefinition(unit).message]
         ELSE IF Truthy(unit.definition["disabled"])
         THEN UnitsLoop(m, array, i + 1, pushedUnits)
         ELSE IF Truthy(unit.definition["pushedUris"])
         THEN UnitsLoop(m, array, i + 1,
                        PushAll(pushedUnits, unit.definition["pushedUris"][1],
                                unit.fullName))
         ELSE UnitsLoop(m, array, i + 1, pushedUnits)

\* the loop over the sorted pages: uriPagesMap so far, or the error
RECURSIVE PagesLoop(_, _, _, _, _)
PagesLoop(m, array, k, layoutsData, uriPagesMap) ==
    IF k > Len(array) THEN [status |-> "ok", uriPagesMap |-> uriPagesMap]
    ELSE LET page == m[array[k]] IN
         IF IsExtended(page)
         THEN PagesLoop(m, array, k + 1, layoutsData, uriPagesMap)
         ELSE IF ~validatePageDefinition(page, layoutsData).success
         THEN [status |-> "error", uriPagesMap |-> uriPagesMap,
               error |-> validatePageDefinition(page, layoutsData).message]
         ELSE IF Truthy(page.definition["disabled"])
         THEN PagesLoop(m, array, k + 1, layoutsData, uriPagesMap)
         ELSE LET pageUri == page.definition["uri"][1][2] IN
              IF \E i \in DOMAIN uriPagesMap : uriPagesMap[i].key = pageUri
              THEN [status |-> "error", uriPagesMap |-> uriPagesMap,
                    error |-> <<"URI already registered", page.fullName>>]
              ELSE PagesLoop(m, array, k + 1, layoutsData,
                             Append(uriPagesMap, [key |-> pageUri,
                                                  value |-> page.fullName]))

\* the table built from the directory listings, or the error that aborts the build
BuildLookupTable(layoutsData, unitDirs, pageDirs) ==
    LET unitsData == getUiComponentsData(unitDirs)
        pagesData == getUiComponentsData(pageDirs)
        units == AssignIndex(unitsData.map, unitsData.array, 1, 0)
        pages == AssignIndex(pagesData.map, pagesData.array, 1, Len(unitsData.array))
        ul == UnitsLoop(units, unitsData.array, 1, << >>)
        pl == PagesLoop(pages, pagesData.array, 1, layoutsData, << >>)
    IN IF unitsData.status = "loop" THEN [status |-> "loop"]
       ELSE IF unitsData.status # "ok" THEN [status |-> "error", error |-> unitsData.error]
       ELSE IF ul.status # "ok" THEN [status |-> "error", error |-> ul.error]
       ELSE IF pagesData.status = "loop" THEN [status |-> "loop"]
       ELSE IF pagesData.status # "ok" THEN [status |-> "error", error |-> pagesData.error]
       ELSE IF pl.status # "ok" THEN [status |-> "error", error |-> pl.error]
       ELSE [status |-> "ok",
             table |-> [layouts |-> layoutsData, pages |-> pages,
                        uriPagesMap |-> pl.uriPagesMap, units |-> units,
                        pushedUnits |-> ul.pushedUnits]]

(***************************************************************************)
(* Furthest child and the unit gate (rendering-handlebars-helpers.js)      *)
(***************************************************************************)
RECURSIVE FurthestLoop(_, _, _, _, _)
FurthestLoop(parentUnit, units, i, furthestChild, furthestChildDistance) ==
    IF i > Len(parentUnit.children) THEN furthestChild
    ELSE LET childUnit == units[parentUnit.children[i]]
             distance == indexOf(childUnit.parents, parentUnit.fullName)
         IN IF furthestChildDistance < distance
            THEN FurthestLoop(parentUnit, units, i + 1, childUnit.fullName, distance)
            ELSE FurthestLoop(parentUnit, units, i + 1, furthestChild,
                              furthestChildDistance)

\* returns the full name of the unit that is processed for parentUnit
getFurthestChildUnit(parentUnit, units) ==
    IF Len(parentUnit.children) = 0 THEN parentUnit.fullName
    ELSE FurthestLoop(parentUnit, units, 1, "", -1)

\* getFurthestChildUnit as the helpers of unnamed/part_001 define it: the children
\* are read from parentUnit.subZones, a property no UI component has, and taking
\* the length of undefined throws a TypeError.  None: the TypeError is thrown.
getFurthestChildUnitSubZones(parentUnit, units) ==
    IF Len(parentUnit.children) = 0 THEN Some(parentUnit.fullName)
    ELSE None

\* Utils.getFurthestChild, used for pages and units alike
getFurthestChild(mentioned, components) == getFurthestChildUnit(mentioned, components)

\* variant: the permissions of the unit are not checked
isUnitProcessableNoPermissions(unit, user) ==
    ~parseBoolean(IF unit.definition["disabled"] = None THEN Undefined
                  ELSE unit.definition["disabled"][1], FALSE)

\* user is None (nobody logged in) or Some([username, permissions])
isUnitProcessable(unit, user) ==
    IF parseBoolean(IF unit.definition["disabled"] = None THEN Undefined
                    ELSE unit.definition["disabled"][1], FALSE)
    THEN FALSE
    ELSE IF user # None /\ unit.definition["permissions"] # None
         THEN \A i \in DOMAIN unit.definition["permissions"][1] :
                 unit.definition["permissions"][1][i] \in user[1].permissions
         ELSE TRUE

(***************************************************************************)
(* Templates: a compiled template is a sequence of nodes                   *)
(***************************************************************************)
TextN(tok) == [k |-> "text", tok |-> tok]
ZoneN(name, override, body) ==
    [k |-> "zone", name |-> name, override |-> override, body |-> body]
DefineZoneN(name, scope, fn) ==
    [k |-> "defineZone", name |-> name, scope |-> scope, fn |-> fn]
UnitN(name) == [k |-> "unit", name |-> name]
ResourceN(type, path, combine) ==
    [k |-> "resource", type |-> type, path |-> path, combine |-> combine]
PageN(name, body) == [k |-> "page", name |-> name, fn |-> Some(body)]

ZoneNames == {"Z", "Y", "S", "_pushedUnits"}
ResourceTypes == {"css", "js"}

(***************************************************************************)
(* Zone data model (data-structures.js)                                    *)
(***************************************************************************)
Resource(type, provider, path, combine) ==
    [type |-> type, provider |-> provider, path |-> path, combine |-> combine]

Zone(name, owner) ==
    [name |-> name, owner |-> owner, providers |-> << >>,
     contents |-> [c \in {} |-> << >>], resources |-> None]

ZoneContent(zoneName, provider) ==
    [zoneName |-> zoneName, provider |-> provider, isOverridden |-> TRUE,
     expired |-> FALSE, content |-> << >>,
     subZonesContents |-> [n \in {} |-> << >>]]

\* Zone.prototype.addContent(zoneContent): ref is the new content's address
ZoneAddContent(zone, provider, ref) ==
    IF provider \in DOMAIN zone.contents
    THEN [zone EXCEPT !.contents[provider] = Append(@, ref)]
    ELSE [zone EXCEPT !.providers = Append(@, provider),
                      !.contents = [c \in DOMAIN zone.contents \cup {provider} |->
                                      IF c = provider THEN <<ref>> ELSE zone.contents[c]]]

\* Zone.prototype.getContents: None when the provider has no contents
ZoneGetContents(zone, provider) ==
    IF provider \in DOMAIN zone.contents THEN Some(zone.contents[provider]) ELSE None

\* ZoneContent.prototype.addSubZoneContent
addSubZoneContent(zc, zoneName, ref) ==
    IF zoneName \in DOMAIN zc.subZonesContents
    THEN [zc EXCEPT !.subZonesContents[zoneName] = Append(@, ref)]
    ELSE [zc EXCEPT !.subZonesContents =
             [n \in DOMAIN zc.subZonesContents \cup {zoneName} |->
                 IF n = zoneName THEN <<ref>> ELSE zc.subZonesContents[n]]]

getSubZoneContents(zc, zoneName) ==
    IF zoneName \in DOMAIN zc.subZonesContents THEN Some(zc.subZonesContents[zoneName])
    ELSE None

hasSubZones(zc) == DOMAIN zc.subZonesContents # {}

\* ZoneContent.prototype.addContent / getContent
ZoneContentAddContent(zc, html) == [zc EXCEPT !.content = @ \o trim(html)]
getContent(zc) == zc.content

\* variant: the resource is added without looking for its path
addResourceUnchecked(zone, type, provider, path, combine) ==
    LET r == Resource(type, provider, path, combine)
        old == IF zone.resources = None THEN [t \in ResourceTypes |-> None]
               ELSE zone.resources[1]
    IN [zone EXCEPT !.resources = Some([old EXCEPT ![type] =
            IF old[type] = None THEN Some(<<r>>) ELSE Some(Append(old[type][1], r))])]

\* Zone.prototype.addResource: the zone after the call
addResource(zone, type, provider, path, combine) ==
    LET r == Resource(type, provider, path, combine) IN
    IF zone.resources # None
    THEN LET resources == zone.resources[1] IN
         IF resources[type] # None
         THEN IF \E i \in DOMAIN resources[type][1] : resources[type][1][i].path = path
              THEN zone
              ELSE [zone EXCEPT !.resources = Some([resources EXCEPT
                                   ![type] = Some(Append(resources[type][1], r))])]
         ELSE [zone EXCEPT !.resources = Some([resources EXCEPT ![type] = Some(<<r>>)])]
    ELSE [zone EXCEPT !.resources =
             Some([t \in ResourceTypes |-> IF t = type THEN Some(<<r>>) ELSE None])]

\* Zone.prototype.addResource: the value returned
addResourceResult(zone, type, provider, path, combine) ==
    ~(/\ zone.resources # None
      /\ zone.resources[1][type] # None
      /\ \E i \in DOMAIN zone.resources[1][type][1] :
            zone.resources[1][type][1][i].path = path)

getResources(zone, type) ==
    IF zone.resources # None THEN zone.resources[1][type] ELSE None

hasResources(zone) == zone.resources # None

(***************************************************************************)
(* State                                                                   *)
(***************************************************************************)
VARIABLES
    lookupTable,    \* the lookup table served to the request
    files,          \* template, script and layout files on disk
    request,        \* the request being routed: page, pushed units, user
    zonesTree,      \* renderingData.zonesTree.topLevelZones
    heap,           \* the ZoneContent objects, addressed by position
    runtimeData,    \* currentPage, processingUnits, processingZones, processingDefZones
    renderedUnits,  \* renderingData.renderedUnits
    stack,          \* the helper and template activations, innermost last
    response,       \* status and body of the HTTP response
    trace,          \* the scripts, blocks and templates evaluated so far, in order
    returns,        \* what every finished call of the unit helper evaluated and returned
    resolved        \* the unit mentioned to an earlier unit helper and what it resolved

vars == <<lookupTable, files, request, zonesTree, heap, runtimeData, renderedUnits, stack,
          response, trace, returns, resolved>>

Cur ==
    [zonesTree |-> zonesTree, heap |-> heap, runtimeData |-> runtimeData,
     renderedUnits |-> renderedUnits, stack |-> stack, response |-> response,
     trace |-> trace, returns |-> returns]

Commit(m) ==
    /\ zonesTree' = m.zonesTree
    /\ heap' = m.heap
    /\ runtimeData' = m.runtimeData
    /\ renderedUnits' = m.renderedUnits
    /\ stack' = m.stack
    /\ response' = m.response
    /\ trace' = m.trace
    /\ returns' = m.returns
    /\ UNCHANGED <<lookupTable, files, request, resolved>>

TplF(nodes) == [f |-> "tpl", nodes |-> nodes, i |-> 1, out |-> << >>]

Top == stack[Len(stack)]
AtNode(kind) ==
    /\ stack # << >>
    /\ Top.f = "tpl"
    /\ Top.i <= Len(Top.nodes)
    /\ Top.nodes[Top.i].k = kind
Node == Top.nodes[Top.i]

\* a template activation has run to its end and the activation below it is of kind f
Returned(f) ==
    /\ Len(stack) >= 2
    /\ Top.f = "tpl"
    /\ Top.i > Len(Top.nodes)
    /\ stack[Len(stack) - 1].f = f

\* hand the helper's return value to the template that called it
ReturnTo(stk, html) ==
    [stk EXCEPT ![Len(stk)].out = @ \o html, ![Len(stk)].i = @ + 1]

\* The catch block of renderPage.  A thrown value is a string, an Error (it has
\* a stack or a message) or any other value; for the last the block sends
\* nothing and the request is left without an answer of the router.
catch(e) ==
    IF e.kind \in {"string", "error"}
    THEN [status |-> "500", body |-> << >>, error |-> e.message]
    ELSE [status |-> "unanswered", body |-> << >>, error |-> << >>]

\* an exception leaves every activation and reaches the catch block of renderPage
ThrowValue(m, e) == [m EXCEPT !.stack = << >>, !.response = catch(e)]

\* throw new Error(msg)
Throw(m, msg) == ThrowValue(m, [kind |-> "error", message |-> msg])

\* readFile: None when the file cannot be read, else Some(content)
readFile(name) == IF files[name].readable THEN Some(files[name].content) ELSE None
\* the JavaScript test !content
Falsy(content) == content = None \/ content[1] = << >>

uiComponent(name) ==
    IF name \in DOMAIN lookupTable.units THEN lookupTable.units[name]
    ELSE lookupTable.pages[name]

\* variant: the unit that was entered first is taken
getProcessingUiComponentOutermost(rd) ==
    IF rd.currentPage # ""
    THEN IF Len(rd.processingUnits) > 0 THEN rd.processingUnits[1] ELSE rd.currentPage
    ELSE ""

getProcessingUiComponent(rd) ==
    IF rd.currentPage # ""
    THEN IF Len(rd.processingUnits) > 0 THEN Last(rd.processingUnits) ELSE rd.currentPage
    ELSE ""

\* executeScript: the component whose onRequest runs, "" when no script is found
RECURSIVE NearestScript(_, _, _)
NearestScript(components, parents, i) ==
    IF i > Len(parents) THEN ""
    ELSE IF components[parents[i]].scriptFilePath /\ files[parents[i]].onRequest
         THEN parents[i]
         ELSE NearestScript(components, parents, i + 1)

executeScript(c, components) ==
    IF c.scriptFilePath /\ files[c.fullName].onRequest THEN c.fullName
    ELSE NearestScript(components, c.parents, 1)

\* the 'super' object executeScript builds: entry i is what onRequest is at
\* nesting depth i - 1, the parent whose function it is or "" for null
superScript(c, components) ==
    [i \in DOMAIN c.parents |->
        IF components[c.parents[i]].scriptFilePath /\ files[c.parents[i]].onRequest
        THEN c.parents[i] ELSE ""]

LogScript(tr, owner) == IF owner = "" THEN tr ELSE Append(tr, <<"script", owner>>)

\* the onRequest function of 'owner' throws
ScriptThrows(owner) == owner # "" /\ files[owner].throws # "none"
\* the value it throws
ScriptError(owner) == [kind |-> files[owner].throws, message |-> <<"script", owner>>]

(***************************************************************************)
(* page helper                                                             *)
(***************************************************************************)
\* The evaluations of pageHelper, numbered: 0 the inner block, 1 the page's own
\* template, 1 + k the template of parents[k], n + 2 the layout.  PageNext gives
\* the first evaluation at or after number s, or the error thrown on the way.
\* variant: the parents are walked from furthest to nearest
parentPageFurthestFirst(page, i) == page.parents[Len(page.parents) - i]

\* parentPagesFullNames[i] of the loop over the parents, i counted from 0
parentPage(page, i) == page.parents[i + 1]

\* variant: the resolved page stays the current page while a parent is processed
currentPageOfParentKept(processingPage, parent) == processingPage.fullName

\* runtimeData.currentPage while the template of 'parent' is processed
currentPageOfParent(processingPage, parent) == parent.fullName

RECURSIVE PageNext(_, _, _)
PageNext(page, fn, s) ==
    LET n == Len(page.parents) IN
    IF s = 0
    THEN IF fn # None
         THEN [kind |-> "eval", s |-> 0, nodes |-> fn[1], currentPage |-> page.fullName,
               what |-> <<"block", page.fullName>>]
         ELSE PageNext(page, fn, 1)
    ELSE IF s = 1
    THEN IF page.templateFilePath
         THEN IF Falsy(readFile(page.fullName))
              THEN [kind |-> "throw", msg |-> <<"Cannot read template", page.fullName>>]
              ELSE [kind |-> "eval", s |-> 1, nodes |-> readFile(page.fullName)[1],
                    currentPage |-> page.fullName,
                    what |-> <<"template", page.fullName>>]
         ELSE PageNext(page, fn, 2)
    ELSE IF s <= n + 1
    THEN LET parent == lookupTable.pages[parentPage(page, s - 2)] IN
         IF parent.templateFilePath
         THEN IF Falsy(readFile(parent.fullName))
              THEN [kind |-> "throw",
                    msg |-> <<"Cannot read template", parent.fullName>>]
              ELSE [kind |-> "eval", s |-> s, nodes |-> readFile(parent.fullName)[1],
                    currentPage |-> currentPageOfParent(page, parent),
                    what |-> <<"template", parent.fullName>>]
         ELSE PageNext(page, fn, s + 1)
    ELSE LET layoutName == page.definition["layout"][1][2] IN
         IF Falsy(readFile(layoutName))
         THEN [kind |-> "throw", msg |-> <<"Cannot read layout", layoutName>>]
         ELSE [kind |-> "eval", s |-> n + 2, nodes |-> readFile(layoutName)[1],
               currentPage |-> page.fullName, what |-> <<"layout", layoutName>>]

\* start evaluation nx on behalf of the page activation fr, which replaces the
\* top 'drop' activations above the caller
PageEval(m, base, fr, nx) ==
    IF nx.kind = "throw" THEN Throw(m, nx.msg)
    ELSE [m EXCEPT !.stack = base \o <<[fr EXCEPT !.s = nx.s], TplF(nx.nodes)>>,
                   !.runtimeData.currentPage = nx.currentPage,
                   !.trace = Append(m.trace, nx.what)]

pageHelper ==
    /\ AtNode("page")
    /\ LET pages == lookupTable.pages IN
       IF Node.name \notin DOMAIN pages
       THEN Commit(Throw(Cur, <<"Page does not exists", Node.name>>))
       ELSE LET processingPage == pages[getFurthestChild(pages[Node.name], pages)]
                m1 == [Cur EXCEPT
                         !.runtimeData.currentPage = processingPage.fullName,
                         !.trace = LogScript(trace, executeScript(processingPage, pages))]
                fr == [f |-> "page", page |-> processingPage.fullName, fn |-> Node.fn,
                       s |-> 0]
                script == executeScript(processingPage, pages)
            IN IF ScriptThrows(script) THEN Commit(ThrowValue(m1, ScriptError(script)))
               ELSE Commit(PageEval(m1, stack, fr, PageNext(processingPage, Node.fn, 0)))

\* an evaluation started by pageHelper has returned
pageHelperResume ==
    /\ Returned("page")
    /\ LET fr == stack[Len(stack) - 1]
           base == SubSeq(stack, 1, Len(stack) - 2)
           page == lookupTable.pages[fr.page]
       IN IF fr.s = Len(page.parents) + 2
          THEN Commit([Cur EXCEPT !.stack = ReturnTo(base, Top.out),
                                  !.runtimeData.currentPage = ""])
          ELSE Commit(PageEval(Cur, base, fr, PageNext(page, fr.fn, fr.s + 1)))

\* literal text of a template
text ==
    /\ AtNode("text")
    /\ Commit([Cur EXCEPT !.stack = [stack EXCEPT ![Len(stack)].out = Append(@, Node.tok),
                                                  ![Len(stack)].i = @ + 1]])

(***************************************************************************)
(* unit helper                                                             *)
(***************************************************************************)
\* The evaluations of unitHelper, numbered: 0 the unit's own template, k the
\* template of parents[k].
RECURSIVE UnitNext(_, _)
UnitNext(unit, s) ==
    IF s > Len(unit.parents) THEN [kind |-> "done"]
    ELSE LET u == IF s = 0 THEN unit ELSE lookupTable.units[unit.parents[s]] IN
         IF u.templateFilePath
         THEN IF Falsy(readFile(u.fullName))
              THEN [kind |-> "throw", msg |-> <<"Cannot read template", u.fullName>>]
              ELSE [kind |-> "eval", s |-> s, nodes |-> readFile(u.fullName)[1],
                    what |-> <<"template", u.fullName>>]
         ELSE UnitNext(unit, s + 1)

UnitEval(m, base, fr, nx) ==
    IF nx.kind = "throw" THEN Throw(m, nx.msg)
    ELSE IF nx.kind = "done"
    THEN [m EXCEPT !.stack = ReturnTo(base, fr.returningHtml),
                   !.renderedUnits = Append(m.renderedUnits, fr.unit),
                   !.returns = Append(m.returns, [unit |-> fr.unit, outs |-> fr.outs,
                                                  html |-> fr.returningHtml]),
                   !.runtimeData = [m.runtimeData EXCEPT
                        !.processingUnits = Front(m.runtimeData.processingUnits),
                        !.processingZones = fr.prevProcessingZones,
                        !.processingDefZones = fr.prevProcessingDefZones]]
    ELSE [m EXCEPT !.stack = base \o <<[fr EXCEPT !.s = nx.s], TplF(nx.nodes)>>,
                   !.trace = Append(m.trace, nx.what)]

\* variant: the unit goes on with the zones stack of its caller
KeptProcessingZones == runtimeData.processingZones

\* 'runtimeData.processingZones = []': the unit starts with a new zones stack
NewProcessingZones == << >>

unitHelper ==
    /\ AtNode("unit")
    /\ LET units == lookupTable.units IN
       IF Node.name \notin DOMAIN units
       THEN Commit(Throw(Cur, <<"Unit does not exists", Node.name>>))
       ELSE LET processingUnit == units[getFurthestChild(units[Node.name], units)] IN
            IF ~isUnitProcessable(processingUnit, request.user)
            THEN Commit([Cur EXCEPT !.stack = ReturnTo(stack, << >>)])
            ELSE LET m1 == [Cur EXCEPT
                              !.runtimeData = [runtimeData EXCEPT
                                  !.processingZones = NewProcessingZones,
                                  !.processingDefZones = << >>,
                                  !.processingUnits = Append(@, processingUnit.fullName)],
                              !.trace = LogScript(trace,
                                                  executeScript(processingUnit, units))]
                     fr == [f |-> "unit", unit |-> processingUnit.fullName, s |-> 0,
                            returningHtml |-> << >>, outs |-> << >>,
                            prevProcessingZones |-> runtimeData.processingZones,
                            prevProcessingDefZones |-> runtimeData.processingDefZones]
                     script == executeScript(processingUnit, units)
                 IN IF ScriptThrows(script)
                    THEN Commit(ThrowValue(m1, ScriptError(script)))
                    ELSE Commit(UnitEval(m1, stack, fr, UnitNext(processingUnit, 0)))

\* variant: the last non-empty output wins
ReturningHtmlLast(returningHtml, s, html) ==
    IF Len(html) > 0 THEN html ELSE returningHtml

\* the 'returningHtml' of unitHelper after the template numbered s has given html
ReturningHtml(returningHtml, s, html) ==
    IF s = 0
    THEN IF Len(html) > 0 THEN html ELSE returningHtml
    ELSE IF Len(returningHtml) = 0 /\ Len(html) > 0 THEN html ELSE returningHtml

\* a template evaluated by unitHelper has returned
unitHelperResume ==
    /\ Returned("unit")
    /\ LET fr == stack[Len(stack) - 1]
           base == SubSeq(stack, 1, Len(stack) - 2)
           unit == lookupTable.units[fr.unit]
           html == trim(Top.out)
           fr1 == [fr EXCEPT
                     !.returningHtml = ReturningHtml(fr.returningHtml, fr.s, html),
                     !.outs = Append(@, [name |-> IF fr.s = 0 THEN unit.fullName
                                                  ELSE unit.parents[fr.s],
                                         html |-> html])]
       IN Commit(UnitEval(Cur, base, fr1, UnitNext(lookupTable.units[fr.unit], fr.s + 1)))

(***************************************************************************)
(* zone helper                                                             *)
(***************************************************************************)
\* open the content 'zc' of the zone: push it, set its flag, evaluate the block
ZoneOpen(m, zc) ==
    LET ref == Len(m.heap) + 1
        isOverride == parseBoolean(Node.override, TRUE)
    IN [m EXCEPT !.heap = Append(m.heap, [zc EXCEPT !.isOverridden = isOverride]),
                 !.runtimeData.processingZones = Append(@, ref),
                 !.stack = stack \o <<[f |-> "zone", ref |-> ref], TplF(Node.body)>>,
                 !.trace = Append(m.trace, <<"zone", Node.name, zc.provider>>)]

\* variant: the ownership test is missing
OwnedByOtherPageUnchecked(mainZone, currentPage) == FALSE

\* the zone is owned by a page other than the current one
OwnedByOtherPage(mainZone, currentPage) == mainZone.owner # currentPage

\* variant: the override test is missing
LastIsOverriddenUnchecked(mainZoneContentsOfProvider, hp) == FALSE

\* the provider's latest content of the zone has overridden it
LastIsOverridden(mainZoneContentsOfProvider, hp) ==
    /\ mainZoneContentsOfProvider # None
    /\ hp[Last(mainZoneContentsOfProvider[1])].isOverridden

zoneHelper ==
    /\ AtNode("zone")
    /\ LET contentProvider == getProcessingUiComponent(runtimeData)
           zonesStack == runtimeData.processingZones
           noop == Commit([Cur EXCEPT !.stack = ReturnTo(stack, << >>)])
           ref == Len(heap) + 1
       IN IF contentProvider = "" THEN noop
          ELSE IF Len(zonesStack) = 0
          THEN LET currentPage == runtimeData.currentPage
                   mainZone == zonesTree[Node.name]
               IN IF mainZone # None
                  THEN IF OwnedByOtherPage(mainZone[1], currentPage) THEN noop
                       ELSE LET cs == ZoneGetContents(mainZone[1], contentProvider) IN
                            IF LastIsOverridden(cs, heap) THEN noop
                            ELSE Commit(ZoneOpen(
                                   [Cur EXCEPT !.zonesTree[Node.name] = Some(
                                       ZoneAddContent(mainZone[1], contentProvider, ref))],
                                   ZoneContent(Node.name, contentProvider)))
                  ELSE Commit(ZoneOpen(
                         [Cur EXCEPT !.zonesTree[Node.name] = Some(
                             ZoneAddContent(Zone(Node.name, currentPage),
                                            contentProvider, ref))],
                         ZoneContent(Node.name, contentProvider)))
          ELSE LET parentRef == Last(zonesStack) IN
               Commit(ZoneOpen(
                   [Cur EXCEPT !.heap[parentRef] =
                        addSubZoneContent(heap[parentRef], Node.name, ref)],
                   ZoneContent(Node.name, contentProvider)))

\* the block of a zone has been evaluated
zoneHelperResume ==
    /\ Returned("zone")
    /\ LET fr == stack[Len(stack) - 1]
           base == SubSeq(stack, 1, Len(stack) - 2)
       IN Commit([Cur EXCEPT
                    !.heap[fr.ref] = ZoneContentAddContent(heap[fr.ref], Top.out),
                    !.runtimeData.processingZones = Front(@),
                    !.stack = ReturnTo(base, << >>)])

(***************************************************************************)
(* css / js helpers                                                        *)
(***************************************************************************)
\* variant: any depth of open zones is accepted
InSomeZone(zonesStack) == Len(zonesStack) >= 1

\* the negation of the test 'zonesStack.length != 1' of resourceHelper
InTopLevelZone(zonesStack) == Len(zonesStack) = 1

resourceHelper ==
    /\ AtNode("resource")
    /\ LET resourceProvider == getProcessingUiComponent(runtimeData)
           zonesStack == runtimeData.processingZones
       IN IF resourceProvider = ""
          THEN Commit(Throw(Cur, <<"should be used inside a page or an unit", Node.type>>))
          ELSE IF ~InTopLevelZone(zonesStack)
          THEN Commit(Throw(Cur, <<"should be used inside a top level zone", Node.type>>))
          ELSE LET zoneName == heap[zonesStack[1]].zoneName
                   resourcePath == <<resourceProvider, Node.path>>
                   isCombine == parseBoolean(Node.combine, TRUE)
               IN Commit([Cur EXCEPT
                     !.zonesTree[zoneName] = Some(addResource(zonesTree[zoneName][1],
                           Node.type, resourceProvider, resourcePath, isCombine)),
                     !.stack = ReturnTo(stack, << >>)])

(***************************************************************************)
(* defineZone helper                                                       *)
(***************************************************************************)
compareUiComponents(a, b) ==
    IF a.index = b.index THEN 0 ELSE IF a.index > b.index THEN 1 ELSE -1

\* variant: the resources are compared the other way round
compareResourcesDescending(a, b) ==
    compareUiComponents(uiComponent(b.provider), uiComponent(a.provider))

compareResources(a, b) == compareUiComponents(uiComponent(a.provider), uiComponent(b.provider))

\* Array.prototype.sort of resources under compareResources
RECURSIVE InsertResource(_, _)
InsertResource(sorted, x) ==
    IF sorted = << >> THEN <<x>>
    ELSE IF compareResources(x, Last(sorted)) >= 0 THEN Append(sorted, x)
    ELSE Append(InsertResource(Front(sorted), x), Last(sorted))

RECURSIVE SortResources(_)
SortResources(rs) ==
    IF rs = << >> THEN << >> ELSE InsertResource(SortResources(Front(rs)), Last(rs))

\* Array.prototype.sort of content providers under compareUiComponents
RECURSIVE InsertProvider(_, _)
InsertProvider(sorted, x) ==
    IF sorted = << >> THEN <<x>>
    ELSE IF compareUiComponents(uiComponent(x), uiComponent(Last(sorted))) >= 0
         THEN Append(sorted, x)
         ELSE Append(InsertProvider(Front(sorted), x), Last(sorted))

\* variant: the content providers stay in the order of their first write
SortProvidersAsWritten(ps) == ps

RECURSIVE SortProviders(_)
SortProviders(ps) ==
    IF ps = << >> THEN << >> ELSE InsertProvider(SortProviders(Front(ps)), Last(ps))

RECURSIVE SelectPaths(_, _)
SelectPaths(rs, combine) ==
    IF rs = << >> THEN << >>
    ELSE IF Head(rs).combine = combine
         THEN <<Head(rs).path>> \o SelectPaths(Tail(rs), combine)
         ELSE SelectPaths(Tail(rs), combine)

\* variant: a bundle path is made whether or not a resource is combinable
getResourcesPathsAlwaysBundle(sortedResources) ==
    Append(SelectPaths(sortedResources, FALSE),
           Flatten(SelectPaths(sortedResources, TRUE))
               \o <<"combined", sortedResources[1].type>>)

\* getResourcesPaths on the sorted resources: every path is a tuple of strings
getResourcesPaths(sortedResources) ==
    LET singleResourcesPaths == SelectPaths(sortedResources, FALSE)
        combiningResourcesPaths == SelectPaths(sortedResources, TRUE)
    IN IF Len(combiningResourcesPaths) > 0
       THEN LET firstResourceType == sortedResources[1].type
                extension == IF firstResourceType = "less" THEN "css"
                             ELSE firstResourceType
            IN Append(singleResourcesPaths,
                      Flatten(combiningResourcesPaths) \o <<"combined", extension>>)
       ELSE singleResourcesPaths

ResourceTags(tag, paths) == [i \in DOMAIN paths |-> <<tag>> \o paths[i]]

\* the resources of the zone after the two in-place sorts of defineZoneHelper
SortedZoneResources(zone) ==
    IF zone.resources = None THEN zone
    ELSE [zone EXCEPT !.resources = Some([t \in ResourceTypes |->
             IF zone.resources[1][t] = None THEN None
             ELSE Some(SortResources(zone.resources[1][t][1]))])]

\* the link and script tags of a zone whose resources are sorted
ZoneResourcesHtml(zone) ==
    IF ~hasResources(zone) THEN << >>
    ELSE (IF getResources(zone, "css") # None
          THEN ResourceTags("link", getResourcesPaths(getResources(zone, "css")[1]))
          ELSE << >>)
         \o
         (IF getResources(zone, "js") # None
          THEN ResourceTags("script", getResourcesPaths(getResources(zone, "js")[1]))
          ELSE << >>)

\* variant: the inner block is evaluated for every content
EvaluatesInnerBlockAlways(contentOfProvider, optionsFn) == optionsFn # None

\* the test 'contentOfProvider.hasSubZones() && optionsFn' of defineZoneHelper
EvaluatesInnerBlock(contentOfProvider, optionsFn) ==
    hasSubZones(contentOfProvider) /\ optionsFn # None

\* variant: an expired content is read again
SkipsExpiredNever(isInProtectedScope, contentOfProvider) == FALSE

\* the test 'isInProtectedScope && contentOfProvider.expired' of defineZoneHelper
SkipsExpired(isInProtectedScope, contentOfProvider) ==
    isInProtectedScope /\ contentOfProvider.expired

\* the content the loops of defineZoneHelper are at
DZRef(fr, zt, hp) ==
    IF fr.mode = "main" THEN zt[fr.zone][1].contents[fr.provs[fr.i]][fr.j]
    ELSE hp[fr.parent].subZonesContents[fr.zone][fr.j]

\* Run the loops of defineZoneHelper from the position held in fr until the inner
\* block must be evaluated (call) or the loops end.  nj = -1: the contents of the
\* provider at i have not been fetched yet.
RECURSIVE DZRun(_, _, _)
DZRun(fr, zt, hp) ==
    IF fr.mode = "main" /\ fr.i > Len(fr.provs)
    THEN [fr |-> fr, heap |-> hp, call |-> FALSE]
    ELSE IF fr.mode = "main" /\ fr.prot /\ fr.child # fr.provs[fr.i]
    THEN DZRun([fr EXCEPT !.i = @ + 1], zt, hp)
    ELSE IF fr.mode = "main" /\ fr.nj = -1
    THEN DZRun([fr EXCEPT !.j = 1,
                          !.nj = Len(zt[fr.zone][1].contents[fr.provs[fr.i]])], zt, hp)
    ELSE IF fr.j > fr.nj
    THEN IF fr.mode = "main"
         THEN DZRun([fr EXCEPT !.i = @ + 1, !.nj = -1], zt, hp)
         ELSE [fr |-> fr, heap |-> hp, call |-> FALSE]
    ELSE LET ref == DZRef(fr, zt, hp) IN
         IF fr.mode = "main" /\ SkipsExpired(fr.prot, hp[ref])
         THEN DZRun([fr EXCEPT !.j = @ + 1], zt, hp)
         ELSE IF EvaluatesInnerBlock(hp[ref], fr.fn)
         THEN [fr |-> fr, heap |-> hp, call |-> TRUE]
         ELSE DZRun([fr EXCEPT !.buf = @ \o getContent(hp[ref]), !.j = @ + 1], zt,
                    IF fr.mode = "main" /\ fr.prot
                    THEN [hp EXCEPT ![ref].expired = TRUE] ELSE hp)

\* continue the helper after DZRun: evaluate the inner block for the content the
\* loops are at, or return the zone's HTML
DZContinue(m, base, r) ==
    IF r.call
    THEN [m EXCEPT !.heap = r.heap,
                   !.runtimeData.processingDefZones =
                        Append(@, DZRef(r.fr, m.zonesTree, r.heap)),
                   !.stack = base \o <<r.fr, TplF(r.fr.fn[1])>>]
    ELSE [m EXCEPT !.heap = r.heap, !.stack = ReturnTo(base, r.fr.buf)]

\* variant: no sub-zone content is looked up
subZoneContentsOfNone(zonesStack, hp, zoneName) == None

\* the sub-zone contents of the content on top of the define-zone stack
subZoneContentsOf(zonesStack, hp, zoneName) ==
    LET parentZoneContent == Last(zonesStack)
    IN getSubZoneContents(hp[parentZoneContent], zoneName)

DZFrame(mode, node) ==
    [f |-> "defineZone", mode |-> mode, zone |-> node.name, fn |-> node.fn,
     provs |-> << >>, i |-> 1, j |-> 1, nj |-> -1, prot |-> FALSE, child |-> "",
     parent |-> 0, buf |-> << >>]

defineZoneHelper ==
    /\ AtNode("defineZone")
    /\ LET zonesStack == runtimeData.processingDefZones
           m0 == [Cur EXCEPT !.trace = Append(trace, <<"defineZone", Node.name>>)]
           default == IF Node.fn # None
                      THEN [m0 EXCEPT !.stack = stack \o <<DZFrame("default", Node),
                                                           TplF(Node.fn[1])>>]
                      ELSE [m0 EXCEPT !.stack = ReturnTo(stack, << >>)]
       IN IF Len(zonesStack) = 0
          THEN IF zonesTree[Node.name] # None
               THEN LET mainZone == SortedZoneResources(zonesTree[Node.name][1])
                        unitsStack == runtimeData.processingUnits
                        isInProtectedScope == Node.scope = StrV("protected")
                                              /\ Len(unitsStack) > 0
                        fr == [DZFrame("main", Node) EXCEPT
                                 !.buf = ZoneResourcesHtml(mainZone),
                                 !.prot = isInProtectedScope,
                                 !.child = IF isInProtectedScope THEN Last(unitsStack)
                                           ELSE "",
                                 !.provs = SortProviders(mainZone.providers)]
                        m1 == [m0 EXCEPT !.zonesTree[Node.name] = Some(mainZone)]
                    IN Commit(DZContinue(m1, stack, DZRun(fr, m1.zonesTree, heap)))
               ELSE Commit(default)
          ELSE LET parentZoneContent == Last(zonesStack)
                   zoneContents == subZoneContentsOf(zonesStack, heap, Node.name)
               IN IF zoneContents # None
                  THEN LET fr == [DZFrame("sub", Node) EXCEPT
                                    !.parent = parentZoneContent,
                                    !.nj = Len(zoneContents[1])]
                       IN Commit(DZContinue(m0, stack, DZRun(fr, zonesTree, heap)))
                  ELSE Commit(default)

\* the inner block of a defineZone has been evaluated
defineZoneHelperResume ==
    /\ Returned("defineZone")
    /\ LET fr == stack[Len(stack) - 1]
           base == SubSeq(stack, 1, Len(stack) - 2)
       IN IF fr.mode = "default"
          THEN Commit([Cur EXCEPT !.stack = ReturnTo(base, Top.out)])
          ELSE LET ref == DZRef(fr, zonesTree, heap)
                   fr1 == [fr EXCEPT !.buf = @ \o Top.out \o getContent(heap[ref]),
                                     !.j = @ + 1]
                   hp == IF fr.mode = "main" /\ fr.prot
                         THEN [heap EXCEPT ![ref].expired = TRUE] ELSE heap
                   m1 == [Cur EXCEPT !.runtimeData.processingDefZones = Front(@)]
               IN Commit(DZContinue(m1, base, DZRun(fr1, zonesTree, hp)))

(***************************************************************************)
(* Router (dynamic-files-router.js)                                        *)
(***************************************************************************)
\* URIMatcher.match on the URIs and patterns in use
match(uri, uriPattern) == uriPattern = uri \/ uriPattern = "/*"

\* variant: the first registered page stands in when no pattern matches
getPageDataOrFirst(pageUri, uriPagesMap, i) ==
    IF \E k \in DOMAIN uriPagesMap : uriPagesMap[k].key = pageUri \/ uriPagesMap[k].key = "/*"
    THEN Some(uriPagesMap[CHOOSE k \in DOMAIN uriPagesMap :
                 uriPagesMap[k].key = pageUri \/ uriPagesMap[k].key = "/*"].value)
    ELSE IF uriPagesMap # << >> THEN Some(uriPagesMap[1].value) ELSE None

RECURSIVE getPageData(_, _, _)
getPageData(pageUri, uriPagesMap, i) ==
    IF i > Len(uriPagesMap) THEN None
    ELSE IF match(pageUri, uriPagesMap[i].key) THEN Some(uriPagesMap[i].value)
    ELSE getPageData(pageUri, uriPagesMap, i + 1)

\* the {{unit "..."}} calls of the pushed units that match the page URI
RECURSIVE getPushedUnitsHandlebarsTemplate(_, _, _)
getPushedUnitsHandlebarsTemplate(pageUri, pushedUnits, i) ==
    IF i > Len(pushedUnits) THEN << >>
    ELSE (IF match(pageUri, pushedUnits[i].key)
          THEN [j \in DOMAIN pushedUnits[i].value |-> UnitN(pushedUnits[i].value[j])]
          ELSE << >>)
         \o getPushedUnitsHandlebarsTemplate(pageUri, pushedUnits, i + 1)

\* variant: a user who lacks a permission is redirected like a visitor
isPageProcessableRedirecting(page, user) ==
    LET d == page.definition
        val(k) == IF d[k] = None THEN Undefined ELSE d[k][1]
    IN IF parseBoolean(val("disabled"), FALSE) THEN "404"
       ELSE IF parseBoolean(val("isAnonymous"), FALSE) THEN "ok"
       ELSE IF user # None
       THEN IF d["permissions"] # None
               /\ \E i \in DOMAIN d["permissions"][1] :
                     d["permissions"][1][i] \notin user[1].permissions
            THEN "redirect" ELSE "ok"
       ELSE "redirect"

\* the outcome of isPageProcessable: "ok" or the response it sends
isPageProcessable(page, user) ==
    LET d == page.definition
        val(k) == IF d[k] = None THEN Undefined ELSE d[k][1]
    IN IF parseBoolean(val("disabled"), FALSE) THEN "404"
       ELSE IF parseBoolean(val("isAnonymous"), FALSE) THEN "ok"
       ELSE IF user # None
       THEN IF d["permissions"] # None
               /\ \E i \in DOMAIN d["permissions"][1] :
                     d["permissions"][1][i] \notin user[1].permissions
            THEN "403" ELSE "ok"
       ELSE "redirect"

\* the template compiled by renderPage
RootTemplate(pageFullName, pushedUnitsHbsTemplate) ==
    <<PageN(pageFullName,
            IF pushedUnitsHbsTemplate # << >>
            THEN <<TextN(WS),
                   ZoneN("_pushedUnits", Undefined,
                         <<TextN(WS)>> \o pushedUnitsHbsTemplate \o <<TextN(WS)>>),
                   TextN(WS)>>
            ELSE << >>)>>

NoResponse == [status |-> "none", body |-> << >>, error |-> << >>]
FreshRuntimeData ==
    [currentPage |-> "", processingUnits |-> << >>, processingZones |-> << >>,
     processingDefZones |-> << >>]

\* variant: the zone model of the pass before is used again
KeptZoneTree == zonesTree

\* registerHelpers: renderingData.zonesTree = new ZoneTree()
NewZoneTree == [z \in ZoneNames |-> None]

route ==
    /\ stack = << >>
    /\ response.status = "none"
    /\ LET pageData == getPageData(request.uri, lookupTable.uriPagesMap, 1) IN
       IF pageData = None
       THEN Commit([Cur EXCEPT !.response = [NoResponse EXCEPT !.status = "404"]])
       ELSE LET page == lookupTable.pages[pageData[1]]
                gate == isPageProcessable(page, request.user)
            IN IF gate # "ok"
               THEN Commit([Cur EXCEPT !.response = [NoResponse EXCEPT !.status = gate]])
               ELSE Commit([Cur EXCEPT
                      !.zonesTree = NewZoneTree,
                      !.runtimeData = FreshRuntimeData,
                      !.renderedUnits = << >>,
                      !.response = [NoResponse EXCEPT !.status = "rendering"],
                      !.stack = <<TplF(RootTemplate(page.fullName,
                                    getPushedUnitsHandlebarsTemplate(
                                        request.uri, lookupTable.pushedUnits, 1)))>>])

\* the compiled template has returned: renderPage prints the HTML
renderPage ==
    /\ Len(stack) = 1
    /\ Top.f = "tpl"
    /\ Top.i > Len(Top.nodes)
    /\ Commit([Cur EXCEPT !.stack = << >>,
                          !.response = [NoResponse EXCEPT !.status = "200",
                                                          !.body = Top.out]])

(***************************************************************************)
(* The applications under test: pages pC -> pB -> pA, units uC -> uB -> uA *)
(* and uD, one layout.  Text written inside a zone block carries the name  *)
(* of the template and of the zone, text written outside carries the name  *)
(* of the template.                                                        *)
(***************************************************************************)
T(c) == TextN(Txt(c))
\* the text template n writes inside its block of zone z
Mark(n, z) == <<"txt", n, z>>
ZT(n, z) == TextN(Mark(n, z))

NoFile == [exists |-> FALSE, readable |-> FALSE, content |-> << >>]
File(content) == [exists |-> TRUE, readable |-> TRUE, content |-> content]
UnreadableFile == [exists |-> TRUE, readable |-> FALSE, content |-> << >>]

PageNames == {"pA", "pB", "pC"}
UnitNames == {"uA", "uB", "uC", "uD"}
LayoutNames == {"main"}

\* templates of the page under test (pC), of its parent and of its grandparent
PageCases ==
    { [pC |-> File(<<ZoneN("Z", Undefined, <<ZT("pC", "Z")>>)>>),
       pB |-> File(<<ZoneN("Z", Undefined, <<ZT("pB", "Z")>>)>>),
       pA |-> File(<<ZoneN("Z", Undefined, <<ZT("pA", "Z")>>),
                     ZoneN("Y", Undefined, <<ZT("pA", "Y")>>)>>)],
      [pC |-> File(<<ZoneN("Z", BoolV(FALSE), <<ZT("pC", "Z"),
                           ResourceN("css", "c.css", Undefined)>>)>>),
       pB |-> File(<<ZoneN("Z", Undefined, <<ZT("pB", "Z")>>)>>),
       pA |-> NoFile],
      [pC |-> NoFile,
       pB |-> File(<<ZoneN("Z", BoolV(TRUE), <<ZT("pB", "Z")>>)>>),
       pA |-> File(<<ZoneN("Z", Undefined, <<ZT("pA", "Z")>>), UnitN("uA")>>)],
      [pC |-> File(<<ZoneN("Z", Undefined, <<ZT("pC", "Z"), UnitN("uA")>>)>>),
       pB |-> File(<<ZoneN("Y", Undefined, <<ZT("pB", "Y"), UnitN("uD")>>)>>),
       pA |-> NoFile],
      [pC |-> File(<<ZoneN("Z", StrV("false"),
                           <<ZT("pC", "Z"), ZoneN("S", Undefined, <<ZT("pC", "S")>>)>>)>>),
       pB |-> File(<<ZoneN("Y", Undefined, << >>)>>),
       pA |-> NoFile],
      [pC |-> File(<< >>),
       pB |-> File(<<ZoneN("Z", Undefined, <<ZT("pB", "Z")>>)>>),
       pA |-> NoFile],
      [pC |-> File(<<TextN(WS), UnitN("uB"), ZoneN("Y", Undefined, <<UnitN("uD")>>)>>),
       pB |-> UnreadableFile,
       pA |-> NoFile],
      [pC |-> File(<<ZoneN("Y", Undefined, <<ZT("pC", "Y")>>),
                     ResourceN("js", "c.js", Undefined)>>),
       pB |-> NoFile,
       pA |-> NoFile] }

\* templates of the units uC, uB and uA
UnitCases ==
    { [uC |-> NoFile,
       uB |-> File(<<T("uB")>>),
       uA |-> File(<<ZoneN("Z", Undefined, <<ZT("uA", "Z")>>), T("uA")>>)],
      [uC |-> File(<<TextN(WS)>>),
       uB |-> File(<<TextN(WS), T("uB"), TextN(WS)>>),
       uA |-> File(<<T("uA")>>)],
      [uC |-> File(<< >>),
       uB |-> File(<<T("uB")>>),
       uA |-> NoFile],
      [uC |-> File(<<TextN(WS), T("uC"), TextN(WS)>>),
       uB |-> File(<<ZoneN("Z", Undefined, <<ZT("uB", "Z")>>), T("uB")>>),
       uA |-> File(<<ZoneN("Z", Undefined, <<ZT("uA", "Z")>>), T("uA")>>)],
      [uC |-> File(<<ZoneN("Z", Undefined, <<ZT("uC", "Z")>>)>>),
       uB |-> File(<<ZoneN("Z", BoolV(FALSE), <<ZT("uB", "Z")>>)>>),
       uA |-> File(<<ZoneN("Z", Undefined, <<ZT("uA", "Z")>>), T("uA")>>)],
      [uC |-> File(<<ZoneN("Z", StrV("No"), <<ZT("uC", "Z")>>), T("uC")>>),
       uB |-> File(<<ZoneN("Z", BoolV(FALSE), <<ZT("uB", "Z")>>)>>),
       uA |-> File(<<ZoneN("Z", Undefined, <<ZT("uA", "Z")>>), T("uA")>>)],
      [uC |-> File(<<ZoneN("Z", BoolV(FALSE), <<ZT("uC", "Z")>>)>>),
       uB |-> File(<<T("uB"), DefineZoneN("Z", StrV("protected"), None)>>),
       uA |-> File(<<DefineZoneN("Z", StrV("protected"), Some(<<T("defaultZ.uA")>>))>>)],
      [uC |-> File(<<ZoneN("Z", BoolV(FALSE), <<ZT("uC", "Z")>>), T("uC")>>),
       uB |-> File(<<ZoneN("Z", Undefined, <<ZT("uB", "Z")>>)>>),
       uA |-> File(<<ZoneN("Z", Undefined, <<ZT("uA", "Z")>>), T("uA")>>)],
      [uC |-> NoFile,
       uB |-> NoFile,
       uA |-> NoFile] }

UnitTemplateD ==
    File(<<ZoneN("Y", Undefined,
                 <<ZT("uD", "Y"), ResourceN("css", "d.css", Undefined),
                   ResourceN("js", "d.js", BoolV(FALSE))>>),
           T("uD")>>)

LayoutTemplates ==
    { File(<<T("html"),
             DefineZoneN("Z", Undefined, Some(<<T("defaultZ")>>)),
             DefineZoneN("Y", Undefined, Some(<<T("defaultY")>>)),
             DefineZoneN("_pushedUnits", Undefined, None)>>),
      File(<<DefineZoneN("Z", Undefined,
                         Some(<<T("defaultZ"),
                                DefineZoneN("S", Undefined, Some(<<T("defaultS")>>))>>)),
             DefineZoneN("Y", Undefined, None)>>) }

\* the definition of unit uD, the user of the request and the units pushed to "/*"
GateCases ==
    { [def |-> [version |-> StrV("1")], user |-> None, pushed |-> {}],
      [def |-> [version |-> StrV("1")], user |-> None, pushed |-> {"uC", "uD"}],
      [def |-> [version |-> StrV("1"), disabled |-> StrV("Yes")], user |-> None,
       pushed |-> {"uC", "uD"}],
      [def |-> [version |-> StrV("1"), permissions |-> <<"view", "edit">>],
       user |-> Some([username |-> "bob", permissions |-> {"view"}]),
       pushed |-> {"uD"}],
      [def |-> [version |-> StrV("1"), permissions |-> <<"view">>],
       user |-> Some([username |-> "amy", permissions |-> {"view", "edit"}]),
       pushed |-> {"uC"}],
      [def |-> [version |-> StrV("1"), permissions |-> <<"view", "edit">>],
       user |-> None, pushed |-> {"uD"}] }

\* the components whose script defines onRequest
ScriptCases == { {}, {"pB", "uA", "uC"} }

\* what the definition of page pA says of access to the page
AnonymousPage == [isAnonymous |-> BoolV(TRUE)]
PageDefCases ==
    { [isAnonymous |-> BoolV(FALSE)],
      [permissions |-> <<"view", "edit">>],
      [isAnonymous |-> StrV("Yes"), permissions |-> <<"view", "edit">>] }

\* page templates that nest zones, register resources and name an unknown unit
NestingPageCases ==
    { [pC |-> File(<<ZoneN("Z", Undefined,
                           <<ZT("pC", "Z"),
                             ZoneN("S", Undefined,
                                   <<T("pC.Z.S"),
                                     ZoneN("Y", Undefined, <<T("pC.Z.S.Y")>>)>>)>>)>>),
       pB |-> NoFile, pA |-> NoFile],
      [pC |-> File(<<ZoneN("Z", Undefined,
                           <<ZT("pC", "Z"),
                             ZoneN("S", Undefined,
                                   <<ResourceN("css", "s.css", Undefined)>>)>>)>>),
       pB |-> NoFile, pA |-> NoFile],
      [pC |-> File(<<ZoneN("Y", Undefined,
                           <<ZT("pC", "Y"),
                             ResourceN("css", "c.css", BoolV(FALSE)),
                             ResourceN("css", "c.css", Undefined),
                             ResourceN("js", "c.js", Undefined),
                             UnitN("uD"),
                             ResourceN("css", "e.css", Undefined)>>)>>),
       pB |-> NoFile, pA |-> NoFile],
      [pC |-> File(<<ZoneN("Z", Undefined,
                           <<ZT("pC", "Z"),
                             ZoneN("Y", Undefined, <<T("pC.Z.Y")>>)>>)>>),
       pB |-> NoFile, pA |-> NoFile],
      [pC |-> File(<<T("pC"), UnitN("uX")>>),
       pB |-> NoFile, pA |-> NoFile] }

\* a page that renders unit uA inside its block of zone Z
UnitInZonePages ==
    [pC |-> File(<<ZoneN("Z", Undefined, <<ZT("pC", "Z"), UnitN("uA")>>)>>),
     pB |-> File(<<ZoneN("Y", Undefined, <<ZT("pB", "Y"), UnitN("uD")>>)>>),
     pA |-> NoFile]

PlainUnits ==
    [uC |-> NoFile,
     uB |-> File(<<T("uB")>>),
     uA |-> File(<<ZoneN("Z", Undefined, <<ZT("uA", "Z")>>), T("uA")>>)]

ProtectedUnits ==
    [uC |-> File(<<ZoneN("Z", BoolV(FALSE), <<ZT("uC", "Z")>>)>>),
     uB |-> File(<<T("uB"), DefineZoneN("Z", StrV("protected"), None)>>),
     uA |-> File(<<DefineZoneN("Z", StrV("protected"), Some(<<T("defaultZ.uA")>>))>>)]

\* the kinds of value the onRequest function of a script throws
ThrowCases == {"string", "error", "other"}

Scenarios ==
    { [pages |-> p, units |-> u, layout |-> l, gate |-> g, scripts |-> s, uri |-> "/",
       pageDef |-> AnonymousPage, throws |-> "none"] :
        p \in PageCases, u \in UnitCases, l \in LayoutTemplates, g \in GateCases,
        s \in ScriptCases }
    \cup
    { [pages |-> p, units |-> u, layout |-> l, gate |-> g, scripts |-> {},
       uri |-> "/missing", pageDef |-> AnonymousPage, throws |-> "none"] :
        p \in {CHOOSE x \in PageCases : x.pC = NoFile},
        u \in {CHOOSE x \in UnitCases : x.uB = NoFile},
        l \in LayoutTemplates, g \in GateCases }
    \cup
    { [pages |-> p, units |-> u, layout |-> l, gate |-> g, scripts |-> {}, uri |-> "/",
       pageDef |-> AnonymousPage, throws |-> "none"] :
        p \in NestingPageCases, u \in {PlainUnits, ProtectedUnits},
        l \in LayoutTemplates,
        g \in {x \in GateCases : x.user = None /\ DOMAIN x.def = {"version"}} }
    \cup
    { [pages |-> UnitInZonePages, units |-> PlainUnits, layout |-> l, gate |-> g,
       scripts |-> {}, uri |-> "/", pageDef |-> d, throws |-> "none"] :
        l \in LayoutTemplates, g \in GateCases, d \in PageDefCases }
    \cup
    { [pages |-> UnitInZonePages, units |-> PlainUnits, layout |-> l, gate |-> g,
       scripts |-> s, uri |-> "/", pageDef |-> AnonymousPage, throws |-> t] :
        l \in LayoutTemplates,
        g \in {x \in GateCases : x.user = None /\ DOMAIN x.def = {"version"}},
        s \in {{"pB"}, {"uC"}}, t \in ThrowCases }

Pushed(def, name, pushed) ==
    IF name \in pushed THEN Def(def @@ [pushedUris |-> <<"/*">>]) ELSE Def(def)

Dir(name, definition, fs, scripts) ==
    [fullName |-> name, definition |-> definition, hasDefinition |-> TRUE,
     hasTemplate |-> fs[name].exists, hasScript |-> name \in scripts]

UnitDirs(fs, gate, scripts) ==
    <<Dir("uA", Def([version |-> StrV("1")]), fs, scripts),
      Dir("uB", Def([extends |-> StrV("uA")]), fs, scripts),
      Dir("uC", Pushed([extends |-> StrV("uB")], "uC", gate.pushed), fs, scripts),
      Dir("uD", Pushed(gate.def, "uD", gate.pushed), fs, scripts)>>

PageDirs(fs, scripts, pageDef) ==
    <<Dir("pA", Def([version |-> StrV("1"), layout |-> StrV("main")] @@ pageDef),
          fs, scripts),
      Dir("pB", Def([extends |-> StrV("pA")]), fs, scripts),
      Dir("pC", Def([extends |-> StrV("pB"), uri |-> StrV("/")]), fs, scripts)>>

Files(sc) ==
    [n \in PageNames \cup UnitNames \cup LayoutNames |->
        LET file == IF n \in {"pA", "pB", "pC"} THEN sc.pages[n]
                    ELSE IF n \in {"uA", "uB", "uC"} THEN sc.units[n]
                    ELSE IF n = "uD" THEN UnitTemplateD
                    ELSE sc.layout
        IN [exists |-> file.exists, readable |-> file.readable,
            content |-> file.content, onRequest |-> n \in sc.scripts,
            throws |-> IF n \in sc.scripts THEN sc.throws ELSE "none"]]

\* the state before the request is routed, for the applications of 'scenarios'
InitFrom(scenarios) ==
    \E sc \in scenarios :
        LET fs == Files(sc)
            built == BuildLookupTable(LayoutNames, UnitDirs(fs, sc.gate, sc.scripts),
                                      PageDirs(fs, sc.scripts, sc.pageDef))
        IN /\ built.status = "ok"
           /\ lookupTable = built.table
           /\ files = fs
           /\ request = [uri |-> sc.uri, user |-> sc.gate.user]
           /\ zonesTree = [z \in ZoneNames |-> None]
           /\ heap = << >>
           /\ runtimeData = FreshRuntimeData
           /\ renderedUnits = << >>
           /\ stack = << >>
           /\ response = NoResponse
           /\ trace = << >>
           /\ returns = << >>
           /\ resolved = None

Init == InitFrom(Scenarios)

Next ==
    \/ route
    \/ pageHelper
    \/ pageHelperResume
    \/ unitHelper
    \/ unitHelperResume
    \/ zoneHelper
    \/ zoneHelperResume
    \/ resourceHelper
    \/ defineZoneHelper
    \/ defineZoneHelperResume
    \/ text
    \/ renderPage

Spec == Init /\ [][Next]_vars

(***************************************************************************)
(* Furthest-child resolution by the unit helpers of the earlier helper     *)
(* files, over every extension forest of MaxUnits units in which a unit    *)
(* extends a unit listed before it, listed forwards or backwards           *)
(***************************************************************************)
MaxUnits == 5
UnitOrder == <<"uA", "uB", "uC", "uD", "uE", "uF">>
ForestUnits == {UnitOrder[i] : i \in 1..MaxUnits}

\* every unit extends nothing ("") or a unit that precedes it in UnitOrder
Forests ==
    { f \in [ForestUnits -> ForestUnits \cup {""}] :
        \A u \in ForestUnits :
            f[u] # "" => indexOf(UnitOrder, f[u]) < indexOf(UnitOrder, u) }

ForestDirs(f, backwards) ==
    [i \in 1..MaxUnits |->
        LET u == UnitOrder[IF backwards THEN MaxUnits + 1 - i ELSE i] IN
        [fullName |-> u,
         definition |-> IF f[u] = "" THEN Def([version |-> StrV("1")])
                        ELSE Def([version |-> StrV("1"), extends |-> StrV(f[u])]),
         hasDefinition |-> TRUE, hasTemplate |-> FALSE, hasScript |-> FALSE]]

InitFC ==
    \E f \in Forests, backwards \in BOOLEAN :
        LET built == BuildLookupTable(LayoutNames, ForestDirs(f, backwards), << >>)
        IN /\ built.status = "ok"
           /\ lookupTable = built.table
           /\ files = << >>
           /\ request = [uri |-> "/", user |-> None]
           /\ zonesTree = [z \in ZoneNames |-> None]
           /\ heap = << >>
           /\ runtimeData = FreshRuntimeData
           /\ renderedUnits = << >>
           /\ stack = << >>
           /\ response = NoResponse
           /\ trace = << >>
           /\ returns = << >>
           /\ resolved = None

Resolve(mentioned, by, unit) ==
    /\ resolved = None
    /\ resolved' = Some([mentioned |-> mentioned, by |-> by, unit |-> unit])
    /\ UNCHANGED <<lookupTable, files, request, zonesTree, heap, runtimeData,
                   renderedUnits, stack, response, trace, returns>>

\* the unit helper of lib/rendering-handlebars-helpers.js resolves a mentioned unit
unitMentioned ==
    \E mentioned \in DOMAIN lookupTable.units :
        Resolve(mentioned, "lib/rendering-handlebars-helpers.js",
                Some(getFurthestChildUnit(lookupTable.units[mentioned],
                                          lookupTable.units)))

\* the unit helper of unnamed/part_001 resolves a mentioned unit
unitMentionedSubZones ==
    \E mentioned \in DOMAIN lookupTable.units :
        Resolve(mentioned, "unnamed/part_001",
                getFurthestChildUnitSubZones(lookupTable.units[mentioned],
                                             lookupTable.units))

NextFC ==
    \/ unitMentioned
    \/ unitMentionedSubZones

SpecFC == InitFC /\ [][NextFC]_vars

(***************************************************************************)
(* The resources of one zone: any sequence of addResource calls with the   *)
(* types, providers, paths and combine flags below, and the paths that     *)
(* getResourcesPaths gives for the resources of a type.  'returns' holds   *)
(* the last call of addResource, 'resolved' the last result of             *)
(* getResourcesPaths.                                                      *)
(***************************************************************************)
ResourceProviders == {"uD", "pC"}
ResourcePathsInUse(type) ==
    IF type = "css" THEN {<<"a">>, <<"b">>, <<"c">>} ELSE {<<"a">>}

InitAR ==
    LET fs == Files([pages |-> UnitInZonePages, units |-> PlainUnits,
                     layout |-> NoFile, scripts |-> {}, throws |-> "none"])
        gate == [def |-> [version |-> StrV("1")], pushed |-> {}]
        built == BuildLookupTable(LayoutNames, UnitDirs(fs, gate, {}),
                                  PageDirs(fs, {}, AnonymousPage))
    IN /\ lookupTable = built.table
       /\ files = fs
       /\ request = [uri |-> "/", user |-> None]
       /\ zonesTree = [z \in ZoneNames |-> IF z = "Z" THEN Some(Zone("Z", "pC")) ELSE None]
       /\ heap = << >>
       /\ runtimeData = FreshRuntimeData
       /\ renderedUnits = << >>
       /\ stack = << >>
       /\ response = NoResponse
       /\ trace = << >>
       /\ returns = << >>
       /\ resolved = None

\* mainZone.addResource(type, provider, path, combine)
addResourceCall ==
    \E type \in ResourceTypes, provider \in ResourceProviders, combine \in BOOLEAN :
      \E path \in ResourcePathsInUse(type) :
        LET zone == zonesTree["Z"][1] IN
        /\ zonesTree' = [zonesTree EXCEPT
                            !["Z"] = Some(addResource(zone, type, provider, path, combine))]
        /\ returns' = <<[type |-> type, path |-> path,
                         rv |-> addResourceResult(zone, type, provider, path, combine)]>>
        /\ resolved' = None
        /\ UNCHANGED <<lookupTable, files, request, heap, runtimeData, renderedUnits,
                       stack, response, trace>>

\* getResourcesPaths(mainZone.getResources(type)): the array is sorted in place
getResourcesPathsCall ==
    \E type \in ResourceTypes :
        LET zone == zonesTree["Z"][1] IN
        /\ getResources(zone, type) # None
        /\ LET sorted == SortResources(getResources(zone, type)[1]) IN
           /\ zonesTree' = [zonesTree EXCEPT !["Z"] = Some(
                   [zone EXCEPT !.resources = Some([zone.resources[1] EXCEPT
                                                      ![type] = Some(sorted)])])]
           /\ resolved' = Some([type |-> type, resources |-> sorted,
                                paths |-> getResourcesPaths(sorted)])
        /\ returns' = << >>
        /\ UNCHANGED <<lookupTable, files, request, heap, runtimeData, renderedUnits,
                       stack, response, trace>>

NextAR ==
    \/ addResourceCall
    \/ getResourcesPathsCall

SpecAR == InitAR /\ [][NextAR]_vars

(***************************************************************************)
(* The directories the table is built from                                 *)
(***************************************************************************)
CDir(name, pairs) ==
    [fullName |-> name, definition |-> Def(pairs), hasDefinition |-> TRUE,
     hasTemplate |-> FALSE, hasScript |-> FALSE]
NoDefinitionDir(name) == [CDir(name, << >>) EXCEPT !.hasDefinition = FALSE]

\* every order in which the listing can give three or two directories
Orders3(a, b, c) ==
    {<<a, b, c>>, <<a, c, b>>, <<b, a, c>>, <<b, c, a>>, <<c, a, b>>, <<c, b, a>>}
Orders2(a, b) == {<<a, b>>, <<b, a>>}

\* the fields a component defines itself: a scalar and an array that carry its name
OwnFields(name, keys) ==
    [k \in keys |-> IF k = "isAnonymous" THEN StrV(name) ELSE <<name>>]

StandardUnits == <<CDir("uA", [version |-> StrV("1")])>>
StandardPages ==
    <<CDir("pA", [version |-> StrV("1"), layout |-> StrV("main")]),
      CDir("pC", [extends |-> StrV("pA"), uri |-> StrV("/")])>>
Disk(units, pages) == [units |-> units, pages |-> pages, layouts |-> {"main"}]

\* pages pC -> pB -> pA, each with its own choice of own fields, in every order
InheritanceDisks ==
    { Disk(StandardUnits, listing) :
        listing \in UNION { Orders3(
            CDir("pA", [version |-> StrV("1"), layout |-> StrV("main"),
                        uri |-> StrV("/")] @@ OwnFields("pA", ka)),
            CDir("pB", [extends |-> StrV("pA")] @@ OwnFields("pB", kb)),
            CDir("pC", [extends |-> StrV("pB")] @@ OwnFields("pC", kc))) :
          ka \in SUBSET {"isAnonymous", "permissions"},
          kb \in SUBSET {"isAnonymous", "permissions"},
          kc \in SUBSET {"isAnonymous", "permissions"} } }
    \cup
    { Disk(listing, StandardPages) :
        listing \in UNION { Orders2(
            CDir("uA", [version |-> StrV("1")] @@ OwnFields("uA", ka)),
            CDir("uB", [extends |-> StrV("uA")] @@ OwnFields("uB", kb))) :
          ka \in SUBSET {"pushedUris"}, kb \in SUBSET {"pushedUris"} } }

\* directories with an extends reference that comes back to its start
CyclicDisks ==
    { Disk(<<CDir("uA", [version |-> StrV("1"), extends |-> StrV("uA")])>>,
           StandardPages),
      Disk(<<CDir("uA", [version |-> StrV("1"), extends |-> StrV("uB")]),
             CDir("uB", [extends |-> StrV("uA")])>>, StandardPages),
      Disk(<<CDir("uC", [extends |-> StrV("uA")]),
             CDir("uA", [version |-> StrV("1"), extends |-> StrV("uB")]),
             CDir("uB", [extends |-> StrV("uA")])>>, StandardPages),
      Disk(StandardUnits,
           <<CDir("pA", [version |-> StrV("1"), layout |-> StrV("main"),
                         uri |-> StrV("/"), extends |-> StrV("pC")]),
             CDir("pC", [extends |-> StrV("pA")])>>) }

\* directories with one of the other load-time errors
FaultyDisks ==
    { Disk(<<CDir("uA", [version |-> StrV("1")]),
             CDir("uB", [extends |-> StrV("uX")])>>, StandardPages),
      Disk(StandardUnits, <<CDir("pA", [version |-> StrV("1"), layout |-> StrV("main")]),
                            CDir("pC", [extends |-> StrV("pX"), uri |-> StrV("/")])>>),
      Disk(<<NoDefinitionDir("uA")>>, StandardPages),
      Disk(StandardUnits, <<NoDefinitionDir("pA")>>),
      Disk(<<CDir("uA", [version |-> StrV("1")]), CDir("u.", [version |-> StrV("1")])>>,
           StandardPages),
      Disk(StandardUnits, <<CDir("pA", [layout |-> StrV("main")]),
                            CDir("pC", [extends |-> StrV("pA"), uri |-> StrV("/")])>>),
      Disk(StandardUnits, <<CDir("pA", [version |-> StrV("1"), layout |-> StrV("main")]),
                            CDir("pC", [extends |-> StrV("pA")])>>),
      Disk(StandardUnits, <<CDir("pA", [version |-> StrV("1")]),
                            CDir("pC", [extends |-> StrV("pA"), uri |-> StrV("/")])>>),
      Disk(StandardUnits, <<CDir("pA", [version |-> StrV("1"), layout |-> StrV("none")]),
                            CDir("pC", [extends |-> StrV("pA"), uri |-> StrV("/")])>>),
      Disk(<<CDir("uA", << >>)>>, StandardPages),
      Disk(<<CDir("uA", [version |-> StrV("1"), pushedUris |-> StrV("/x")])>>,
           StandardPages),
      Disk(StandardUnits,
           <<CDir("pA", [version |-> StrV("1"), layout |-> StrV("main")]),
             CDir("pC", [extends |-> StrV("pA"), uri |-> StrV("/")]),
             CDir("pD", [extends |-> StrV("pA"), uri |-> StrV("/")])>>),
      Disk(StandardUnits,
           <<CDir("pA", [version |-> StrV("1"), layout |-> StrV("main")]),
             CDir("pC", [extends |-> StrV("pA"), uri |-> StrV("/")]),
             CDir("pD", [extends |-> StrV("pA"), disabled |-> BoolV(TRUE)])>>),
      Disk(StandardUnits,
           <<CDir("pA", [version |-> StrV("1"), layout |-> StrV("main")]),
             CDir("pC", [extends |-> StrV("pA")]),
             CDir("pD", [extends |-> StrV("pA"), layout |-> StrV("none"),
                         uri |-> StrV("/d")])>>) }

\* directories without fault: disabled components, components that are
\* extended, and an extended page whose own definition is incomplete
SoundDisks ==
    { Disk(StandardUnits, StandardPages),
      Disk(<<CDir("uA", [version |-> StrV("1"), pushedUris |-> <<"/">>]),
             CDir("uB", [extends |-> StrV("uA"), disabled |-> BoolV(TRUE)]),
             CDir("uD", [version |-> StrV("1"), pushedUris |-> <<"/", "/d">>]),
             CDir("uE", [version |-> StrV("1"), pushedUris |-> <<"/d">>,
                         disabled |-> StrV("false")])>>,
           <<CDir("pA", [version |-> StrV("1"), layout |-> StrV("main"),
                         uri |-> StrV("/")]),
             CDir("pC", [extends |-> StrV("pA"), uri |-> StrV("/c")]),
             CDir("pD", [version |-> StrV("1"), layout |-> StrV("main"),
                         uri |-> StrV("/d"), disabled |-> BoolV(TRUE)])>>),
      Disk(StandardUnits,
           <<CDir("pA", [layout |-> StrV("main")]),
             CDir("pC", [extends |-> StrV("pA"), uri |-> StrV("/"),
                         version |-> StrV("1")]),
             CDir("pD", [extends |-> StrV("pA"), uri |-> StrV("/d"),
                         version |-> StrV("2")])>>) }

BuildDisks == InheritanceDisks \cup CyclicDisks \cup FaultyDisks \cup SoundDisks

\* the directories the configuration changes between while requests run
SharedDisks ==
    <<Disk(StandardUnits, StandardPages),
      Disk(<<CDir("uA", [version |-> StrV("1")]),
             CDir("uB", [extends |-> StrV("uA"), pushedUris |-> <<"/">>])>>,
           <<CDir("pA", [version |-> StrV("1"), layout |-> StrV("main")]),
             CDir("pC", [extends |-> StrV("pA"), uri |-> StrV("/")]),
             CDir("pD", [extends |-> StrV("pA"), uri |-> StrV("/d")])>>),
      Disk(StandardUnits, <<CDir("pA", [version |-> StrV("1"), layout |-> StrV("main")]),
                            CDir("pC", [extends |-> StrV("pX"), uri |-> StrV("/")])>>)>>

(***************************************************************************)
(* getLookupTable step by step, for requests that share the application    *)
(* cache.  'files' is the disk: the configuration file with its            *)
(* modification time and the directory listings.  'lookupTable' is the     *)
(* application cache: the cached configurations and the cached table.      *)
(* 'heap' holds the table objects, built or under construction; the cache, *)
(* the requests and the returns refer to them by address.  'request' maps  *)
(* every request to its place in getLookupTable, 'returns' holds for every *)
(* request what its last call has returned or thrown, with the             *)
(* modification time of the configuration file at that moment; a table     *)
(* object carries the modification time at which it was built.             *)
(***************************************************************************)
MaxCalls == 2
MaxLmd == 1
MaxParents == 4

\* a request outside getLookupTable.  Inside, ref is the table under
\* construction, names the listing, i the place of the for loop of the
\* chaining, pn the parent the while loop is at, and passes the number of
\* passes of the while loop for the component at i, modulo MaxParents + 1
Idle(calls) ==
    [pc |-> "idle", calls |-> calls, ref |-> 0, names |-> << >>, i |-> 0, pn |-> None,
     passes |-> 0]

\* the parents and children arrays grow with every pass of the while loop: the
\* last MaxParents entries of an array are kept
KeepLast(s) == IF Len(s) <= MaxParents THEN s ELSE SubSeq(s, Len(s) - MaxParents + 1, Len(s))

NewTable(layoutsData) ==
    [layouts |-> layoutsData, units |-> << >>, pages |-> << >>,
     pushedUnits |-> << >>, uriPagesMap |-> << >>]

\* getConfigurations: the configurations are read again when the file is newer
\* than the cached ones
getConfigurations(cache, disk) ==
    IF cache.conf = None \/ disk.lmd > cache.conf[1].lmd
    THEN [cache EXCEPT !.conf = Some([value |-> disk.conf, lmd |-> disk.lmd])]
    ELSE cache

\* variant: the build fills the table object that is in the cache
NewObjectReused(cached, hp) == IF cached # None THEN cached[1] ELSE Len(hp) + 1

\* the object literal of the table is a new object
NewObject(cached, hp) == Len(hp) + 1

\* variant: the table is put into the cache as soon as the units are done
PutsTableEarly(pc) == pc \in {"units", "built"}

\* application.put(CACHE_KEY_LOOKUP_TABLE, lookupTable) is the last statement
PutsTable(pc) == pc = "built"

\* the extends reference the while loop of the component at i starts with
FirstParent(map, names, i) ==
    IF i > Len(names) THEN None ELSE map[names[i]].definition["extends"]

\* getLookupTable returns a table or throws an error
Return(r, what) ==
    /\ returns' = [returns EXCEPT ![r] = Some([lmd |-> files.lmd] @@ what)]
    /\ request' = [request EXCEPT ![r] = Idle(request[r].calls)]

\* route calls getConfigurations and getLookupTable: the cached table is
\* returned, or the build starts with the listing of the units directory
getLookupTableCall(r) ==
    /\ request[r].pc = "idle"
    /\ request[r].calls < MaxCalls
    /\ LET cache == getConfigurations(lookupTable, files)
           isCachingEnabled == cache.conf[1].value.caching
           cachedLookupTable == cache.table
           called == [request EXCEPT ![r].calls = @ + 1]
           ref == NewObject(cachedLookupTable, heap)
           map == GatherMap(files.unitDirs)
           names == GatherNames(files.unitDirs)
           table == [NewTable(files.layouts) EXCEPT !.units = map] @@ [lmd |-> files.lmd]
       IN IF isCachingEnabled /\ cachedLookupTable # None
          THEN /\ lookupTable' = cache
               /\ returns' = [returns EXCEPT ![r] =
                                  Some([lmd |-> files.lmd, status |-> "cached",
                                        table |-> cachedLookupTable[1]])]
               /\ request' = called
               /\ UNCHANGED heap
          ELSE IF GatherError(files.unitDirs, 1) # None
          THEN /\ lookupTable' = cache
               /\ returns' = [returns EXCEPT ![r] =
                                  Some([lmd |-> files.lmd, status |-> "error",
                                        error |-> GatherError(files.unitDirs, 1)[1]])]
               /\ request' = called
               /\ UNCHANGED heap
          ELSE /\ lookupTable' = cache
               /\ heap' = IF ref \in DOMAIN heap THEN [heap EXCEPT ![ref] = table]
                          ELSE Append(heap, table)
               /\ request' = [called EXCEPT ![r].pc = "units", ![r].ref = ref,
                                            ![r].names = names, ![r].i = 1,
                                            ![r].pn = FirstParent(map, names, 1)]
               /\ returns' = [returns EXCEPT ![r] = None]
    /\ UNCHANGED <<files, zonesTree, runtimeData, renderedUnits, stack, response,
                   trace, resolved>>

\* one pass of the while loop of the inheritance chaining, or the step of its
\* for loop to the next component
chain(r) ==
    /\ request[r].pc \in {"units", "pages"}
    /\ request[r].i <= Len(request[r].names)
    /\ LET rq == request[r]
           map == heap[rq.ref][rq.pc]
           c == rq.names[rq.i]
       IN IF rq.pn = None
          THEN /\ request' = [request EXCEPT ![r].i = @ + 1, ![r].passes = 0,
                                 ![r].pn = FirstParent(map, rq.names, rq.i + 1)]
               /\ UNCHANGED <<heap, returns>>
          ELSE IF rq.pn[1][2] \notin DOMAIN map
          THEN /\ Return(r, [status |-> "error",
                             error |-> NoParentError(map, c, rq.pn[1][2])])
               /\ UNCHANGED heap
          ELSE /\ LET pn == rq.pn[1][2]
                      m2 == ChainIteration(map, c, pn)
                      m3 == [m2 EXCEPT ![pn].children = KeepLast(@)]
                  IN /\ heap' = [heap EXCEPT ![rq.ref][rq.pc] =
                                    [m3 EXCEPT ![c].parents = KeepLast(@)]]
                     /\ request' = [request EXCEPT
                                       ![r].pn = m2[pn].definition["extends"],
                                       ![r].passes = (@ + 1) % (MaxParents + 1)]
               /\ UNCHANGED returns
    /\ UNCHANGED <<files, lookupTable, zonesTree, runtimeData, renderedUnits, stack,
                   response, trace, resolved>>

\* the chaining of the units is done: they are sorted, indexed, validated and
\* registered, and the pages directory is listed
unitsLoop(r) ==
    /\ request[r].pc = "units"
    /\ request[r].i > Len(request[r].names)
    /\ \E array \in sort(heap[request[r].ref].units, request[r].names) :
       LET rq == request[r]
           units == AssignIndex(heap[rq.ref].units, array, 1, 0)
           ul == UnitsLoop(units, array, 1, << >>)
           map == GatherMap(files.pageDirs)
           names == GatherNames(files.pageDirs)
           table == [heap[rq.ref] EXCEPT !.units = units]
       IN IF ul.status # "ok"
          THEN /\ Return(r, [status |-> "error", error |-> ul.error])
               /\ heap' = [heap EXCEPT ![rq.ref] = table]
               /\ UNCHANGED lookupTable
          ELSE IF GatherError(files.pageDirs, 1) # None
          THEN /\ Return(r, [status |-> "error",
                             error |-> GatherError(files.pageDirs, 1)[1]])
               /\ heap' = [heap EXCEPT ![rq.ref] =
                              [table EXCEPT !.pushedUnits = ul.pushedUnits]]
               /\ UNCHANGED lookupTable
          ELSE /\ heap' = [heap EXCEPT ![rq.ref] =
                              [table EXCEPT !.pushedUnits = ul.pushedUnits,
                                            !.pages = map]]
               /\ request' = [request EXCEPT ![r].pc = "pages", ![r].names = names,
                                             ![r].i = 1,
                                             ![r].pn = FirstParent(map, names, 1)]
               /\ lookupTable' = IF PutsTable("units")
                                 THEN [lookupTable EXCEPT !.table = Some(rq.ref)]
                                 ELSE lookupTable
               /\ UNCHANGED returns
    /\ UNCHANGED <<files, zonesTree, runtimeData, renderedUnits, stack, response,
                   trace, resolved>>

\* the chaining of the pages is done: they are sorted, indexed, validated and
\* registered
pagesLoop(r) ==
    /\ request[r].pc = "pages"
    /\ request[r].i > Len(request[r].names)
    /\ \E array \in sort(heap[request[r].ref].pages, request[r].names) :
       LET rq == request[r]
           pages == AssignIndex(heap[rq.ref].pages, array, 1,
                                Cardinality(DOMAIN heap[rq.ref].units))
           pl == PagesLoop(pages, array, 1, heap[rq.ref].layouts, << >>)
           table == [heap[rq.ref] EXCEPT !.pages = pages]
       IN IF pl.status # "ok"
          THEN /\ Return(r, [status |-> "error", error |-> pl.error])
               /\ heap' = [heap EXCEPT ![rq.ref] = table]
          ELSE /\ heap' = [heap EXCEPT ![rq.ref] =
                              [table EXCEPT !.uriPagesMap = pl.uriPagesMap]]
               /\ request' = [request EXCEPT ![r].pc = "built"]
               /\ UNCHANGED returns
    /\ UNCHANGED <<files, lookupTable, zonesTree, runtimeData, renderedUnits, stack,
                   response, trace, resolved>>

\* the table is put into the application cache and returned
publish(r) ==
    /\ request[r].pc = "built"
    /\ PutsTable(request[r].pc)
    /\ lookupTable' = [lookupTable EXCEPT !.table = Some(request[r].ref)]
    /\ Return(r, [status |-> "built", table |-> request[r].ref])
    /\ heap' = [heap EXCEPT ![request[r].ref].lmd = files.lmd]
    /\ UNCHANGED <<files, zonesTree, runtimeData, renderedUnits, stack, response,
                   trace, resolved>>

\* the configuration file is rewritten: its modification time advances, the
\* caching flag and the directories may have changed
touch ==
    /\ files.lmd < MaxLmd
    /\ \E caching \in BOOLEAN, disk \in DOMAIN SharedDisks :
          files' = [conf |-> [caching |-> caching], lmd |-> files.lmd + 1,
                    layouts |-> SharedDisks[disk].layouts,
                    unitDirs |-> SharedDisks[disk].units,
                    pageDirs |-> SharedDisks[disk].pages]
    /\ UNCHANGED <<lookupTable, heap, request, returns, zonesTree, runtimeData,
                   renderedUnits, stack, response, trace, resolved>>

InitBuild(requests, disks) ==
    /\ \E caching \in BOOLEAN, disk \in disks :
          files = [conf |-> [caching |-> caching], lmd |-> 0, layouts |-> disk.layouts,
                   unitDirs |-> disk.units, pageDirs |-> disk.pages]
    /\ lookupTable = [conf |-> None, table |-> None]
    /\ heap = << >>
    /\ request = [r \in requests |-> Idle(0)]
    /\ returns = [r \in requests |-> None]
    /\ zonesTree = [z \in ZoneNames |-> None]
    /\ runtimeData = FreshRuntimeData
    /\ renderedUnits = << >>
    /\ stack = << >>
    /\ response = NoResponse
    /\ trace = << >>
    /\ resolved = None

\* one request at a time builds the table of any of the directories of BuildDisks
InitLB == InitBuild({1}, BuildDisks)

NextLB ==
    \/ \E r \in DOMAIN request : getLookupTableCall(r)
    \/ \E r \in DOMAIN request : chain(r)
    \/ \E r \in DOMAIN request : unitsLoop(r)
    \/ \E r \in DOMAIN request : pagesLoop(r)
    \/ \E r \in DOMAIN request : publish(r)

SpecLB == InitLB /\ [][NextLB]_vars

\* the directories with a fault or a cycle and the sound ones; a request that
\* is inside the inheritance chaining goes on running
InitLC == InitBuild({1}, CyclicDisks \cup FaultyDisks \cup SoundDisks)

SpecLC == InitLC /\ [][NextLB]_vars /\ WF_vars(\E r \in DOMAIN request : chain(r))

\* two requests share the application cache while the configuration changes
InitLT == InitBuild({1, 2}, Range(SharedDisks))

NextLT ==
    \/ touch
    \/ \E r \in DOMAIN request : getLookupTableCall(r)
    \/ \E r \in DOMAIN request : chain(r)
    \/ \E r \in DOMAIN request : unitsLoop(r)
    \/ \E r \in DOMAIN request : pagesLoop(r)
    \/ \E r \in DOMAIN request : publish(r)

SpecLT == InitLT /\ [][NextLT]_vars

(***************************************************************************)
(* The order of the components.  The units uA, uB and uC are listed in     *)
(* every order, each with no index or one of two indices in its            *)
(* definition, under every extends relation without a cycle.               *)
(***************************************************************************)
OrderedUnits == {"uA", "uB", "uC"}
IndexChoices == {0, 1, 2}

\* the unit reached from n by 'steps' extends references, "" past the root
RECURSIVE Up(_, _, _)
Up(ext, n, steps) ==
    IF n = "" \/ steps = 0 THEN n ELSE Up(ext, ext[n], steps - 1)

ExtendsRelations ==
    {ext \in [OrderedUnits -> OrderedUnits \cup {""}] :
        \A n \in OrderedUnits : Up(ext, n, Cardinality(OrderedUnits)) = ""}

\* the directory of unit n: index 0 stands for a definition without index
OrderedDir(n, ext, idx) ==
    CDir(n, [version |-> StrV("1")]
            @@ (IF ext[n] = "" THEN << >> ELSE [extends |-> StrV(ext[n])])
            @@ (IF idx[n] = 0 THEN << >> ELSE [index |-> idx[n]]))

OrderDisks ==
    { Disk([i \in 1..3 |-> OrderedDir(listing[i], ext, idx)], StandardPages) :
        listing \in Orders3("uA", "uB", "uC"),
        ext \in ExtendsRelations,
        idx \in [OrderedUnits -> IndexChoices] }

InitSO == InitBuild({1}, OrderDisks)

SpecSO == InitSO /\ [][NextLB]_vars

(***************************************************************************)
(* Units inside units.  The page mentions unit uA, which resolves to uC    *)
(* (uC extends uB extends uA); the templates of uC, uB and uA render unit  *)
(* uD between, inside and after their own zone blocks.                     *)
(***************************************************************************)
NestedPages ==
    { [pC |-> File(<<T("pC"), UnitN("uA"), ZoneN("Y", Undefined, <<ZT("pC", "Y")>>)>>),
       pB |-> NoFile, pA |-> NoFile],
      [pC |-> File(<<ZoneN("Z", Undefined,
                           <<ZT("pC", "Z"), UnitN("uA"),
                             ResourceN("css", "c.css", Undefined)>>)>>),
       pB |-> NoFile, pA |-> NoFile],
      [pC |-> File(<<ZoneN("Z", Undefined,
                           <<ZT("pC", "Z"), ZoneN("S", Undefined, <<ZT("pC", "S")>>)>>),
                     UnitN("uA")>>),
       pB |-> NoFile, pA |-> NoFile] }

\* a layout that renders unit uD in the inner block of a defineZone
NestedLayout ==
    File(<<DefineZoneN("Z", Undefined,
                       Some(<<UnitN("uD"),
                              DefineZoneN("S", Undefined, Some(<<T("defaultS")>>))>>)),
           DefineZoneN("Y", Undefined, None)>>)

NestedUnits ==
    { [uC |-> File(<<ZoneN("Z", Undefined,
                           <<ZT("uC", "Z"), ResourceN("css", "u.css", Undefined)>>),
                     UnitN("uD"),
                     ZoneN("Y", Undefined,
                           <<ZT("uC", "Y"), ResourceN("js", "u.js", Undefined)>>),
                     T("uC")>>),
       uB |-> File(<<ZoneN("Z", BoolV(FALSE), <<ZT("uB", "Z")>>), T("uB")>>),
       uA |-> NoFile],
      [uC |-> File(<<ZoneN("Z", Undefined,
                           <<ZT("uC", "Z"), UnitN("uD"),
                             ResourceN("css", "u.css", Undefined)>>)>>),
       uB |-> File(<<UnitN("uD"), ZoneN("Y", Undefined, <<ZT("uB", "Y")>>)>>),
       uA |-> NoFile],
      [uC |-> File(<<T("uC")>>),
       uB |-> NoFile,
       uA |-> File(<<DefineZoneN("S", Undefined,
                                 Some(<<T("defaultS.uA"), UnitN("uD"),
                                        DefineZoneN("Y", Undefined, None)>>)),
                     ZoneN("Z", Undefined, <<ZT("uA", "Z")>>)>>)] }

NestedScenarios ==
    { [pages |-> p, units |-> u, layout |-> l, gate |-> g, scripts |-> {}, uri |-> "/",
       pageDef |-> AnonymousPage, throws |-> "none"] :
        p \in NestedPages, u \in NestedUnits, l \in LayoutTemplates \cup {NestedLayout},
        g \in GateCases }

InitNU == InitFrom(NestedScenarios)

SpecNU == InitNU /\ [][Next]_vars

(***************************************************************************)
(* The unit helper of lib/rendering-handlebars-helpers.js.  That copy      *)
(* keeps one current unit, runtimeData.currentUnitFullName, where the      *)
(* later copies keep the stack processingUnits; here it is the one element *)
(* of processingUnits, and null is the empty sequence.  Its zone helper    *)
(* takes the current unit as the provider, else the current page, which is *)
(* getProcessingUiComponent on a stack of at most one unit.                *)
(***************************************************************************)
\* the template the helper evaluates next: the unit's own, then those of its
\* parents from the nearest to the furthest; a file that cannot be read throws
RECURSIVE UnitNextOfLib(_, _)
UnitNextOfLib(unit, s) ==
    IF s > Len(unit.parents) THEN [kind |-> "done"]
    ELSE LET u == IF s = 0 THEN unit ELSE lookupTable.units[unit.parents[s]] IN
         IF u.templateFilePath
         THEN IF readFile(u.fullName) = None
              THEN [kind |-> "throw", msg |-> <<"Cannot read template", u.fullName>>]
              ELSE [kind |-> "eval", s |-> s, nodes |-> readFile(u.fullName)[1],
                    what |-> <<"template", u.fullName>>]
         ELSE UnitNextOfLib(unit, s + 1)

\* 'runtimeData.currentUnitFullName = null' when the helper returns; the
\* buffer is joined in reverse, the furthest parent's output first
UnitEvalOfLib(m, base, fr, nx) ==
    IF nx.kind = "throw" THEN Throw(m, nx.msg)
    ELSE IF nx.kind = "done"
    THEN [m EXCEPT !.stack = ReturnTo(base, fr.returningHtml),
                   !.renderedUnits = Append(m.renderedUnits, fr.unit),
                   !.returns = Append(m.returns, [unit |-> fr.unit, outs |-> fr.outs,
                                                  html |-> fr.returningHtml]),
                   !.runtimeData = [m.runtimeData EXCEPT
                        !.processingUnits = << >>,
                        !.processingZones = fr.prevProcessingZones,
                        !.processingDefZones = fr.prevProcessingDefZones]]
    ELSE [m EXCEPT !.stack = base \o <<[fr EXCEPT !.s = nx.s], TplF(nx.nodes)>>,
                   !.trace = Append(m.trace, nx.what)]

unitHelperOfLib ==
    /\ AtNode("unit")
    /\ LET units == lookupTable.units IN
       IF Node.name \notin DOMAIN units
       THEN Commit(Throw(Cur, <<"Unit does not exists", Node.name>>))
       ELSE LET processingUnit == units[getFurthestChildUnit(units[Node.name], units)]
                script == executeScript(processingUnit, units)
                m1 == [Cur EXCEPT
                         !.runtimeData = [runtimeData EXCEPT
                             !.processingZones = << >>,
                             !.processingDefZones = << >>,
                             !.processingUnits = <<processingUnit.fullName>>],
                         !.trace = LogScript(trace, script)]
                fr == [f |-> "unit", unit |-> processingUnit.fullName, s |-> 0,
                       returningHtml |-> << >>, outs |-> << >>,
                       prevProcessingZones |-> runtimeData.processingZones,
                       prevProcessingDefZones |-> runtimeData.processingDefZones]
            IN IF ScriptThrows(script)
               THEN Commit(ThrowValue(m1, ScriptError(script)))
               ELSE Commit(UnitEvalOfLib(m1, stack, fr, UnitNextOfLib(processingUnit, 0)))

\* a template evaluated by the helper has returned: 'buffer.push(...)'
unitHelperOfLibResume ==
    /\ Returned("unit")
    /\ LET fr == stack[Len(stack) - 1]
           base == SubSeq(stack, 1, Len(stack) - 2)
           unit == lookupTable.units[fr.unit]
           fr1 == [fr EXCEPT
                     !.returningHtml = Top.out \o @,
                     !.outs = Append(@, [name |-> IF fr.s = 0 THEN unit.fullName
                                                  ELSE unit.parents[fr.s],
                                         html |-> Top.out])]
       IN Commit(UnitEvalOfLib(Cur, base, fr1, UnitNextOfLib(unit, fr.s + 1)))

NextOfLib ==
    \/ route
    \/ pageHelper
    \/ pageHelperResume
    \/ unitHelperOfLib
    \/ unitHelperOfLibResume
    \/ zoneHelper
    \/ zoneHelperResume
    \/ resourceHelper
    \/ defineZoneHelper
    \/ defineZoneHelperResume
    \/ text
    \/ renderPage

SpecOfLib == InitNU /\ [][NextOfLib]_vars

(***************************************************************************)
(* Zones as the helpers of unnamed/part_001 keep and read them, with the   *)
(* Zone and ContentHolder of lib/data-structures.js: a zone holds one      *)
(* content holder for each provider, in the order of their first write,    *)
(* and a holder holds the array of the provider's HTML strings.  The page  *)
(* pC is being rendered; a write comes from the page or from a unit's own  *)
(* template (isProcessingParentUnits is false), a read from a defineZone   *)
(* outside every other defineZone, of a zone without sub-zones and without *)
(* resources.  'returns' lists the reads made since the last write.        *)
(***************************************************************************)
MaxWrites == 3
MaxReads == 2
ReadZones == {"Z", "Y"}
ContentProviders == {"pC", "uC"}
WrittenContents == {<<Txt("a")>>, <<WS, Txt("b")>>}

\* new ContentHolder(provider)
ContentHolder(provider) ==
    [provider |-> provider, isOverridden |-> FALSE, contents |-> << >>]

\* ContentHolder.prototype.addContentForcefully
addContentForcefully(holder, isOverridden, content) ==
    [holder EXCEPT !.isOverridden = isOverridden,
                   !.contents = Append(@, trim(content))]

\* new Zone(name, owner), its holders in the order of the keys of 'contents'
ZoneOfHolders(name, owner) == [name |-> name, owner |-> owner, contents |-> << >>]

\* Zone.prototype.getContentProviders
getContentProviders(zone) == [i \in DOMAIN zone.contents |-> zone.contents[i].provider]

\* the position of the provider's holder in the zone, 0 when it has none
HolderAt(zone, provider) ==
    IF \E i \in DOMAIN zone.contents : zone.contents[i].provider = provider
    THEN CHOOSE i \in DOMAIN zone.contents : zone.contents[i].provider = provider
    ELSE 0

\* Zone.prototype.addContentProvider followed by addContentForcefully
ZoneWritten(zone, provider, isOverride, content) ==
    LET added == IF HolderAt(zone, provider) = 0
                 THEN [zone EXCEPT !.contents = Append(@, ContentHolder(provider))]
                 ELSE zone
    IN [added EXCEPT !.contents[HolderAt(added, provider)] =
                          addContentForcefully(@, isOverride, content)]

\* the strings the zones hold
WrittenIn(zt) ==
    UNION { { <<z, i, j>> : i \in DOMAIN zt[z][1].contents,
                            j \in 1..MaxWrites } \cap
            { t \in {z} \X (1..MaxWrites) \X (1..MaxWrites) :
                  /\ t[2] \in DOMAIN zt[z][1].contents
                  /\ t[3] \in DOMAIN zt[z][1].contents[t[2]].contents } :
            z \in {y \in ReadZones : zt[y] # None} }

\* zoneHelper of unnamed/part_001 for a top-level zone whose block is text
zoneHelperOfPart001 ==
    /\ Cardinality(WrittenIn(zonesTree)) < MaxWrites
    /\ \E zoneName \in ReadZones, contentProvider \in ContentProviders,
          override \in {Undefined, BoolV(FALSE)}, content \in WrittenContents :
          LET currentPage == "pC"
              currentZone == IF zonesTree[zoneName] # None THEN zonesTree[zoneName][1]
                             ELSE ZoneOfHolders(zoneName, currentPage)
              isOverride == parseBoolean(override, TRUE)
          IN /\ currentZone.owner = currentPage
             /\ zonesTree' = [zonesTree EXCEPT ![zoneName] =
                    Some(ZoneWritten(currentZone, contentProvider, isOverride, content))]
    /\ returns' = << >>
    /\ UNCHANGED <<lookupTable, files, request, heap, runtimeData, renderedUnits, stack,
                   response, trace, resolved>>

\* Array.prototype.reverse: the array itself is reversed and returned
reverse(array) == [i \in DOMAIN array |-> array[Len(array) + 1 - i]]

\* the loop of defineZoneHelper over the sorted content providers:
\* 'mainZoneBuffer.push(contents.reverse().join(""))', where 'contents' is the
\* array the holder keeps
RECURSIVE ReadProviders(_, _, _)
ReadProviders(zone, contentProviders, k) ==
    IF k > Len(contentProviders) THEN [zone |-> zone, html |-> << >>]
    ELSE LET at == HolderAt(zone, contentProviders[k])
             contents == reverse(zone.contents[at].contents)
             rest == ReadProviders([zone EXCEPT !.contents[at].contents = contents],
                                   contentProviders, k + 1)
         IN [zone |-> rest.zone, html |-> Flatten(contents) \o rest.html]

\* defineZoneHelper of unnamed/part_001 at the top level; the inner block is
\* the default content of a zone nobody wrote
defineZoneHelperOfPart001 ==
    /\ Len(returns) < MaxReads
    /\ \E zoneName \in ReadZones, fn \in {None, Some(<<Txt("default")>>)} :
          LET currentZone == zonesTree[zoneName] IN
          IF currentZone # None
          THEN LET contentProviders == SortProviders(getContentProviders(currentZone[1]))
                   read == ReadProviders(currentZone[1], contentProviders, 1)
               IN /\ zonesTree' = [zonesTree EXCEPT ![zoneName] = Some(read.zone)]
                  /\ returns' = Append(returns, [zone |-> zoneName, html |-> read.html])
          ELSE /\ zonesTree' = zonesTree
               /\ returns' = Append(returns, [zone |-> zoneName,
                                              html |-> IF fn # None THEN fn[1] ELSE << >>])
    /\ UNCHANGED <<lookupTable, files, request, heap, runtimeData, renderedUnits, stack,
                   response, trace, resolved>>

NextOfPart001 ==
    \/ zoneHelperOfPart001
    \/ defineZoneHelperOfPart001

\* one application, for its lookup table
ReadScenarios ==
    {sc \in NestedScenarios : /\ sc.layout = NestedLayout
                              /\ sc.gate.pushed = {}
                              /\ sc.pages.pC.content[1] = T("pC")
                              /\ sc.units.uC.content = <<T("uC")>>}

InitOfPart001 == InitFrom(ReadScenarios)

SpecOfPart001 == InitOfPart001 /\ [][NextOfPart001]_vars

(***************************************************************************)
(* The auth module (unnamed/part_002) and its earlier copy (sign-out.js).  *)
(* 'request.user' is what the session holds under the user key, 'files'    *)
(* the SSO configuration of the application, 'response' the answer to the  *)
(* last operation and 'trace' that operation: its request parameters and   *)
(* what the server, the SSO client and the session answered.  A request    *)
(* parameter is None (null) or Some(string).                               *)
(***************************************************************************)
Usernames == {None, Some(""), Some("amy"), Some("bob")}
Passwords == {None, Some(""), Some("pw1"), Some("pw2")}
\* the users the server knows, with their passwords
Accounts == {<<"amy", "pw1">>, <<"bob", "pw2">>}
\* what decodeSAMLLoginResponse gives: null, a session without id, a session
SsoSessions ==
    {None, Some([sessionId |-> "", loggedInUser |-> ""]),
     Some([sessionId |-> "s1", loggedInUser |-> "amy"]),
     Some([sessionId |-> "s2", loggedInUser |-> "bob"])}
\* the SAMLResponse parameter: whether getSamlObject parses it, whether it is
\* a logout response, whether its signature is valid, what it decodes to
SamlResponses ==
    {None} \cup {Some(r) : r \in [parses : BOOLEAN, logout : BOOLEAN,
                                  signed : BOOLEAN, session : SsoSessions]}
ResponseSigningEnabled == {Undefined, BoolV(FALSE), StrV("true")}

\* '!parameter || (parameter.length == 0)'
Missing(parameter) == parameter = None \/ parameter = Some("")

\* carbon Server.authenticate
authenticate(username, password) ==
    /\ username # None
    /\ password # None
    /\ <<username[1], password[1]>> \in Accounts

\* UserManager.getAllowedUIResources as a map
getAllowedUIResources(username) ==
    IF username = "amy" THEN {"view", "edit"} ELSE {"view"}

\* Utils.setCurrentUser: session.put of the user object
setCurrentUser(rq, username) ==
    [rq EXCEPT !.user = Some([username |-> username,
                              permissions |-> getAllowedUIResources(username)])]

\* Utils.getCurrentUser
getCurrentUser(rq) ==
    IF rq.user # None /\ rq.user[1].username # "" THEN rq.user ELSE None

\* session.invalidate
invalidate(rq) == [rq EXCEPT !.user = None]

\* the operation with its parameters and the answers of the collaborators:
\* 'throws' for authenticate, getSamlObject and session.invalidate, 'fails'
\* for setCurrentUser, 'scriptThrows' for the script of handleEvent
Operation(operation, by, username, password, saml, c) ==
    [operation |-> operation, by |-> by, username |-> username, password |-> password,
     saml |-> saml, debug |-> c.debug, throws |-> c.throws, fails |-> c.fails,
     scriptThrows |-> c.scriptThrows]

Collaborators == [debug : BOOLEAN, throws : BOOLEAN, fails : BOOLEAN, scriptThrows : BOOLEAN]

Answer(rq, op, status) ==
    /\ request' = rq
    /\ response' = [status |-> status, body |-> << >>, error |-> << >>]
    /\ trace' = <<op>>
    /\ UNCHANGED <<lookupTable, files, zonesTree, heap, runtimeData, renderedUnits, stack,
                   returns, resolved>>

\* handleEvent: the script of the event, then the redirect
handleEvent(c) == IF c.scriptThrows THEN "500" ELSE "302"

\* setCurrentUser and what follows it in login and ssoAcs
UserSet(rq, op, username, c) ==
    IF c.fails THEN Answer(rq, op, "thrown")
    ELSE Answer(setCurrentUser(rq, username), op, handleEvent(c))

login ==
    \E username \in Usernames, password \in Passwords, c \in Collaborators :
        LET op == Operation("login", "unnamed/part_002", username, password, None, c) IN
        IF Missing(username) THEN Answer(request, op, handleEvent(c))
        ELSE IF Missing(password) THEN Answer(request, op, handleEvent(c))
        ELSE IF c.throws THEN Answer(request, op, "500")
        ELSE IF authenticate(username, password)
        THEN UserSet(request, op, username[1], c)
        ELSE Answer(request, op, handleEvent(c))

\* logout, also called by ssoAcs for a logout response
Logout(op, c) ==
    LET previousUser == getCurrentUser(request) IN
    IF c.throws THEN Answer(request, op, "500")
    ELSE IF c.debug /\ previousUser = None THEN Answer(invalidate(request), op, "thrown")
    ELSE Answer(invalidate(request), op, handleEvent(c))

logout ==
    \E c \in Collaborators :
        LET op == Operation("logout", "unnamed/part_002", None, None, None, c)
        IN Logout(op, c)

\* variant: the signature of a login response is not validated
SignatureAcceptedUnchecked(rsEnabled, valid) == TRUE

\* 'Utils.parseBoolean(rsEnabled, false)' and ssoClient.validateSignature
SignatureAccepted(rsEnabled, valid) == parseBoolean(rsEnabled, FALSE) => valid

ssoAcs ==
    \E samlResponse \in SamlResponses, c \in Collaborators :
        LET op == Operation("ssoAcs", "unnamed/part_002", None, None, samlResponse, c) IN
        IF samlResponse = None THEN Answer(request, op, "400")
        ELSE LET samlResponseObj == samlResponse[1]
                 ssoSession == samlResponseObj.session
             IN IF ~samlResponseObj.parses THEN Answer(request, op, "500")
                ELSE IF samlResponseObj.logout THEN Logout(op, c)
                ELSE IF ~SignatureAccepted(files.rsEnabled, samlResponseObj.signed)
                THEN Answer(request, op, "500")
                ELSE IF ssoSession = None THEN Answer(request, op, "thrown")
                ELSE IF ssoSession[1].sessionId # ""
                THEN UserSet(request, op, ssoSession[1].loggedInUser, c)
                ELSE Answer(request, op, "500")

\* login(username, password) of sign-out.js: one try block around everything
loginOfSignOut ==
    \E username \in Usernames, password \in Passwords,
       c \in {k \in Collaborators : ~k.scriptThrows} :
        LET op == Operation("login", "sign-out.js", username, password, None, c) IN
        IF c.throws THEN Answer(request, op, "302")
        ELSE IF authenticate(username, password)
        THEN IF c.fails THEN Answer(request, op, "302")
             ELSE Answer(setCurrentUser(request, username[1]), op, "302")
        ELSE Answer(request, op, "302")

logoutOfSignOut ==
    \E c \in {k \in Collaborators : ~k.scriptThrows /\ ~k.fails} :
        LET op == Operation("logout", "sign-out.js", None, None, None, c) IN
        IF c.throws THEN Answer(request, op, "thrown")
        ELSE Answer(invalidate(request), op, "302")

\* ssoAcs of sign-out.js; its SSO client gives null or a session
ssoAcsOfSignOut ==
    \E samlResponse \in {r \in SamlResponses :
                            r = None \/ r[1].session \notin {Some([sessionId |-> "",
                                                                   loggedInUser |-> ""])}},
       c \in {k \in Collaborators : ~k.scriptThrows} :
        LET op == Operation("ssoAcs", "sign-out.js", None, None, samlResponse, c) IN
        IF samlResponse = None THEN Answer(request, op, "400")
        ELSE LET samlResponseObj == samlResponse[1]
                 ssoSession == samlResponseObj.session
             IN IF ~samlResponseObj.parses THEN Answer(request, op, "thrown")
                ELSE IF samlResponseObj.logout
                THEN IF c.debug /\ getCurrentUser(request) = None
                     THEN Answer(request, op, "thrown")
                     ELSE IF c.throws THEN Answer(request, op, "thrown")
                     ELSE Answer(invalidate(request), op, "302")
                ELSE IF ~SignatureAccepted(files.rsEnabled, samlResponseObj.signed)
                THEN Answer(request, op, "500")
                ELSE IF ssoSession # None
                THEN IF c.fails THEN Answer(request, op, "thrown")
                     ELSE Answer(setCurrentUser(request, ssoSession[1].loggedInUser),
                                   op, "302")
                ELSE Answer(request, op, "500")

InitAuth ==
    \E rsEnabled \in ResponseSigningEnabled :
        /\ files = [rsEnabled |-> rsEnabled]
        /\ request = [uri |-> "/", user |-> None]
        /\ lookupTable = << >>
        /\ zonesTree = [z \in ZoneNames |-> None]
        /\ heap = << >>
        /\ runtimeData = FreshRuntimeData
        /\ renderedUnits = << >>
        /\ stack = << >>
        /\ response = NoResponse
        /\ trace = << >>
        /\ returns = << >>
        /\ resolved = None

NextAuth ==
    \/ login
    \/ logout
    \/ ssoAcs
    \/ loginOfSignOut
    \/ logoutOfSignOut
    \/ ssoAcsOfSignOut

SpecAuth == InitAuth /\ [][NextAuth]_vars

(***************************************************************************)
(* The same request twice.  When the first pass has been answered the      *)
(* request arrives again: 'resolved' keeps the first response, the router  *)
(* starts over with a new response, and the heap of the application goes   *)
(* on growing.                                                             *)
(***************************************************************************)
again ==
    /\ stack = << >>
    /\ response.status \notin {"none", "rendering"}
    /\ resolved = None
    /\ resolved' = Some(response)
    /\ response' = NoResponse
    /\ trace' = << >>
    /\ returns' = << >>
    /\ UNCHANGED <<lookupTable, files, request, heap, zonesTree, runtimeData,
                   renderedUnits, stack>>

NextRT ==
    \/ again
    \/ route
    \/ pageHelper
    \/ pageHelperResume
    \/ unitHelper
    \/ unitHelperResume
    \/ zoneHelper
    \/ zoneHelperResume
    \/ resourceHelper
    \/ defineZoneHelper
    \/ defineZoneHelperResume
    \/ text
    \/ renderPage

SpecRT == Init /\ [][NextRT]_vars

(***************************************************************************)
(* Two requests rendered at the same time.  The variables hold the request *)
(* that is running and the data its helpers work on; 'resolved' holds the  *)
(* number of the running request, the other request as it was when it was  *)
(* last running, and for every Handlebars object the data of the helpers   *)
(* registered on it.  The heap is the one of the application.              *)
(***************************************************************************)
Requests == {1, 2}

\* variant: require gives every request the same Handlebars object, on which
\* the helpers of the later registerHelpers call replace the earlier ones
getHandlebarsEnvironmentShared(r) == 1

\* getHandlebarsEnvironment: the Handlebars object that require gives the
\* request, with the helpers that registerHelpers has made for the request
getHandlebarsEnvironment(r) == r

\* what route and renderPage hold of the running request
RequestState ==
    [request |-> request, stack |-> stack, response |-> response, trace |-> trace,
     returns |-> returns]

\* what the helpers registered by registerHelpers hold: renderingData and
\* runtimeData
HelpersData ==
    [zonesTree |-> zonesTree, runtimeData |-> runtimeData,
     renderedUnits |-> renderedUnits]

Running == << >>
Answered(rs) == rs.stack = << >> /\ rs.response.status # "none"

\* the thread of the other request goes on
switch ==
    LET r == resolved.running
        q == 3 - r
        saved == [resolved.helpers EXCEPT ![getHandlebarsEnvironment(r)] = HelpersData]
        data == saved[getHandlebarsEnvironment(q)]
        next == resolved.parked[q]
    IN /\ ~Answered(next)
       /\ request' = next.request
       /\ stack' = next.stack
       /\ response' = next.response
       /\ trace' = next.trace
       /\ returns' = next.returns
       /\ zonesTree' = data.zonesTree
       /\ runtimeData' = data.runtimeData
       /\ renderedUnits' = data.renderedUnits
       /\ resolved' = [running |-> q,
                       parked |-> [resolved.parked EXCEPT ![r] = RequestState,
                                                         ![q] = Running],
                       helpers |-> [saved EXCEPT ![getHandlebarsEnvironment(q)] = Running]]
       /\ UNCHANGED <<lookupTable, files, heap>>

\* the application of the two requests: request 1 asks for page pC ("/"),
\* which extends pB and pA and uses unit uA; request 2 for page pD ("/d"),
\* which uses unit uD
SharedPageTemplates ==
    { [pC |-> File(<<ZoneN("Z", Undefined,
                           <<ZT("pC", "Z"), UnitN("uA"),
                             ResourceN("css", "c.css", Undefined)>>)>>),
       pB |-> File(<<ZoneN("Y", Undefined, <<ZT("pB", "Y")>>)>>),
       pA |-> NoFile,
       pD |-> File(<<ZoneN("Z", Undefined, <<ZT("pD", "Z"), UnitN("uD")>>),
                     ZoneN("Y", Undefined, <<ZT("pD", "Y")>>)>>)],
      [pC |-> File(<<ZoneN("Y", Undefined, <<ZT("pC", "Y")>>), T("pC"), UnitN("uB")>>),
       pB |-> NoFile,
       pA |-> File(<<ZoneN("Z", Undefined, <<ZT("pA", "Z")>>)>>),
       pD |-> File(<<ZoneN("Z", BoolV(FALSE),
                           <<ZT("pD", "Z"), ResourceN("js", "p.js", Undefined)>>)>>)] }

SharedFiles(pages, layout) ==
    [n \in {"pA", "pB", "pC", "pD"} \cup UnitNames \cup LayoutNames |->
        LET file == IF n \in {"pA", "pB", "pC", "pD"} THEN pages[n]
                    ELSE IF n \in {"uA", "uB", "uC"} THEN PlainUnits[n]
                    ELSE IF n = "uD" THEN UnitTemplateD
                    ELSE layout
        IN [exists |-> file.exists, readable |-> file.readable,
            content |-> file.content, onRequest |-> FALSE, throws |-> "none"]]

SharedPageDirs(fs) ==
    <<Dir("pA", Def([version |-> StrV("1"), layout |-> StrV("main")] @@ AnonymousPage),
          fs, {}),
      Dir("pB", Def([extends |-> StrV("pA")]), fs, {}),
      Dir("pC", Def([extends |-> StrV("pB"), uri |-> StrV("/")]), fs, {}),
      Dir("pD", Def([version |-> StrV("1"), layout |-> StrV("main"), uri |-> StrV("/d")]
                    @@ AnonymousPage), fs, {})>>

RequestedUri == <<"/", "/d">>

InitCR ==
    \E pages \in SharedPageTemplates, layout \in LayoutTemplates, first \in Requests :
        LET fs == SharedFiles(pages, layout)
            gate == CHOOSE g \in GateCases : g.user = None /\ g.pushed = {}
            built == BuildLookupTable(LayoutNames, UnitDirs(fs, gate, {}),
                                      SharedPageDirs(fs))
            fresh == [zonesTree |-> [z \in ZoneNames |-> None],
                      runtimeData |-> FreshRuntimeData, renderedUnits |-> << >>]
            new(r) == [request |-> [uri |-> RequestedUri[r], user |-> None],
                       stack |-> << >>, response |-> NoResponse, trace |-> << >>,
                       returns |-> << >>]
        IN /\ built.status = "ok"
           /\ lookupTable = built.table
           /\ files = fs
           /\ request = new(first).request
           /\ zonesTree = fresh.zonesTree
           /\ heap = << >>
           /\ runtimeData = fresh.runtimeData
           /\ renderedUnits = fresh.renderedUnits
           /\ stack = << >>
           /\ response = NoResponse
           /\ trace = << >>
           /\ returns = << >>
           /\ resolved = [running |-> first,
                          parked |-> [r \in Requests |->
                                        IF r = first THEN Running ELSE new(r)],
                          helpers |-> [e \in Requests |->
                                         IF e = getHandlebarsEnvironment(first)
                                         THEN Running ELSE fresh]]

NextCR ==
    \/ switch
    \/ route
    \/ pageHelper
    \/ pageHelperResume
    \/ unitHelper
    \/ unitHelperResume
    \/ zoneHelper
    \/ zoneHelperResume
    \/ resourceHelper
    \/ defineZoneHelper
    \/ defineZoneHelperResume
    \/ text
    \/ renderPage

SpecCR == InitCR /\ [][NextCR]_vars

(***************************************************************************)
(* Properties                                                              *)
(***************************************************************************)
Finished == response.status = "200"
Body == response.body

\* template n was evaluated during the pass
Evaluated(n) == \E i \in DOMAIN trace : trace[i] = <<"template", n>>

\* template n holds, at its top level, a block of zone z
HasZoneBlock(n, z) ==
    /\ files[n].exists
    /\ \E i \in DOMAIN files[n].content :
          /\ files[n].content[i].k = "zone"
          /\ files[n].content[i].name = z

\* the contents recorded for top-level zone z, as heap addresses
ContentsOf(z) ==
    IF zonesTree[z] = None THEN {}
    ELSE UNION { Range(zonesTree[z][1].contents[p]) : p \in DOMAIN zonesTree[z][1].contents }

\* template n's block of zone z was recorded, with the override flag ov
Recorded(n, z, ov) ==
    \E r \in ContentsOf(z) :
        /\ heap[r].isOverridden = ov
        /\ Mark(n, z) \in Range(heap[r].content)

\* the component resolved for the request and the extension chains rendered
ResolvedPage ==
    LET pageData == getPageData(request.uri, lookupTable.uriPagesMap, 1)
    IN getFurthestChild(lookupTable.pages[pageData[1]], lookupTable.pages)
RenderedLeaves == {ResolvedPage} \cup Range(renderedUnits)
Chain(n) == <<n>> \o uiComponent(n).parents

Position(s, x) == CHOOSE i \in DOMAIN s : s[i] = x

C2_OverrideFalse ==
    Finished =>
        \A z \in {"Z", "Y"} : \A leaf \in RenderedLeaves :
            \A i \in DOMAIN Chain(leaf) : \A j \in DOMAIN Chain(leaf) :
                LET d == Chain(leaf)[i]
                    a == Chain(leaf)[j]
                IN (/\ i < j
                    /\ Recorded(d, z, FALSE)
                    /\ HasZoneBlock(a, z) /\ Evaluated(a))
                   => /\ Mark(d, z) \in Range(Body)
                      /\ Mark(a, z) \in Range(Body)
                      /\ Position(Body, Mark(a, z)) < Position(Body, Mark(d, z))

FirstOpen(z) ==
    CHOOSE i \in DOMAIN trace :
        /\ trace[i][1] = "zone" /\ trace[i][2] = z
        /\ \A j \in 1..(i - 1) : ~(trace[j][1] = "zone" /\ trace[j][2] = z)

\* trace[i] starts the pushed-units block or the template of a page
IsPageStep(i) ==
    /\ trace[i][1] \in {"block", "template"}
    /\ trace[i][2] \in PageNames

\* the page whose block or template is being evaluated at position i of the trace
PageAt(i) ==
    LET k == CHOOSE k \in 1..(i - 1) :
                 /\ IsPageStep(k)
                 /\ \A j \in (k + 1)..(i - 1) : ~IsPageStep(j)
    IN trace[k][2]

OpenOfForeignZone ==
    /\ AtNode("zone")
    /\ getProcessingUiComponent(runtimeData) # ""
    /\ Len(runtimeData.processingZones) = 0
    /\ zonesTree[Node.name] # None
    /\ zonesTree[Node.name][1].owner # runtimeData.currentPage

\* C4: the owner of a top-level zone is the page that is current when the zone
\* is first opened and never changes; opening the zone while another page is
\* current raises no error, evaluates no block and leaves the zone model, the
\* resources and the stack of open zones as they were.
C4_OwnershipNoOp ==
    [][/\ \A z \in ZoneNames :
            /\ (zonesTree[z] # None /\ response.status = "rendering")
               => (zonesTree'[z] # None /\ zonesTree'[z][1].owner = zonesTree[z][1].owner)
            /\ (zonesTree[z] = None /\ zonesTree'[z] # None)
               => zonesTree'[z][1].owner = runtimeData.currentPage
       /\ OpenOfForeignZone
            => /\ zonesTree' = zonesTree
               /\ heap' = heap
               /\ runtimeData' = runtimeData
               /\ response' = response
               /\ trace' = trace
               /\ stack' = ReturnTo(stack, << >>)]_vars

\* the template has just passed a zone block that was such a no-op
C4_Witness ==
    /\ stack # << >>
    /\ Top.f = "tpl"
    /\ Top.i > 1
    /\ Top.nodes[Top.i - 1].k = "zone"
    /\ Len(runtimeData.processingZones) = 0
    /\ Len(runtimeData.processingUnits) = 0
    /\ runtimeData.currentPage # ""
    /\ zonesTree[Top.nodes[Top.i - 1].name] # None
    /\ zonesTree[Top.nodes[Top.i - 1].name][1].owner # runtimeData.currentPage

RECURSIVE FirstNonEmpty(_)
FirstNonEmpty(outs) ==
    IF outs = << >> THEN << >>
    ELSE IF Len(Head(outs).html) > 0 THEN Head(outs).html
    ELSE FirstNonEmpty(Tail(outs))

\* the templates of a unit's chain that exist, the unit's own first
TemplatesOf(unit) ==
    SelectSeq(Chain(unit), LAMBDA n : lookupTable.units[n].templateFilePath)

Count(s, x) == Cardinality({i \in DOMAIN s : s[i] = x})

EmptyTemplate(n) ==
    /\ files[n].exists
    /\ files[n].readable
    /\ \A i \in DOMAIN files[n].content : files[n].content[i] = TextN(WS)

\* the template of n writes text of its own
RendersText(n) ==
    /\ files[n].exists
    /\ files[n].readable
    /\ \E i \in DOMAIN files[n].content :
          /\ files[n].content[i].k = "text"
          /\ files[n].content[i].tok # WS

\* C6: a unit whose own template exists but is empty after trim, and whose
\* parent's template renders HTML, is rendered without error and returns the
\* parent's HTML.
C6_EmptyChildTemplate ==
    \A u \in UnitNames :
        LET unit == lookupTable.units[u] IN
        (/\ EmptyTemplate(u)
         /\ unit.parents # << >>
         /\ RendersText(unit.parents[1]))
        => /\ response.error # <<"Cannot read template", u>>
           /\ \A k \in DOMAIN returns :
                 returns[k].unit = u
                 => /\ returns[k].html # << >>
                    /\ returns[k].html = returns[k].outs[2].html

\* the events of the trace that are steps of the page helper
PageEvents ==
    SelectSeq(trace, LAMBDA e : \/ e[1] \in {"block", "layout"}
                                \/ e[1] \in {"script", "template"} /\ e[2] \in PageNames)

\* the order the claim fixes for the page resolved for the request
PageOrder ==
    LET page == lookupTable.pages[ResolvedPage]
        owner == executeScript(page, lookupTable.pages)
    IN (IF owner = "" THEN << >> ELSE <<<<"script", owner>>>>)
       \o <<<<"block", page.fullName>>>>
       \o [i \in DOMAIN SelectSeq(Chain(page.fullName),
                                  LAMBDA n : lookupTable.pages[n].templateFilePath) |->
             <<"template", SelectSeq(Chain(page.fullName),
                                     LAMBDA n : lookupTable.pages[n].templateFilePath)[i]>>]
       \o <<<<"layout", page.definition["layout"][1][2]>>>>

IsPrefix(a, b) == Len(a) <= Len(b) /\ a = SubSeq(b, 1, Len(a))

\* the leaf units the router pushes into the page that pass the gate
PushedAndProcessable ==
    { u \in UnitNames :
        /\ \E i \in DOMAIN lookupTable.pushedUnits :
              /\ match(request.uri, lookupTable.pushedUnits[i].key)
              /\ u \in Range(lookupTable.pushedUnits[i].value)
        /\ isUnitProcessable(lookupTable.units[u], request.user) }

\* C7: a page render evaluates, in this order, the page script, the inner block
\* with the pushed units, the page's own template, the ancestors' templates from
\* nearest to furthest and the layout; once the layout is being evaluated no
\* zone is written any more.
C7_EvaluationOrder ==
    response.status \in {"rendering", "200"} =>
        /\ IsPrefix(PageEvents, PageOrder)
        /\ Finished => PageEvents = PageOrder
        /\ Len(PageEvents) > Position(PageOrder, <<"block", ResolvedPage>>)
             => PushedAndProcessable \subseteq Range(renderedUnits)
        /\ \A i \in DOMAIN trace : \A j \in DOMAIN trace :
              (i < j /\ trace[i][1] = "layout") => trace[j][1] = "defineZone"

\* script, block with a pushed unit, three page templates and the layout
C7_Witness ==
    /\ Finished
    /\ Len(PageEvents) = 6
    /\ PushedAndProcessable # {}

\* the unit helper is reached for a unit that is disabled, or that declares a
\* permission the user of the request does not hold
GateClosed ==
    /\ AtNode("unit")
    /\ Node.name \in DOMAIN lookupTable.units
    /\ LET unit == lookupTable.units[getFurthestChild(lookupTable.units[Node.name],
                                                      lookupTable.units)]
           disabled == unit.definition["disabled"]
           permissions == unit.definition["permissions"]
       IN \/ disabled # None /\ parseBoolean(disabled[1], FALSE)
          \/ /\ permissions # None
             /\ request.user # None
             /\ \E i \in DOMAIN permissions[1] :
                   permissions[1][i] \notin request.user[1].permissions

Descendants(n) == {u \in DOMAIN lookupTable.units : n \in Range(lookupTable.units[u].parents)}
Distance(u, n) == indexOf(lookupTable.units[u].parents, n)

\* what the claim says of the unit resolved for a mentioned unit with children
FurthestLeaf(mentioned, unit) ==
    LET children == lookupTable.units[mentioned].children IN
    /\ unit \in Descendants(mentioned)
    /\ unit # mentioned
    /\ lookupTable.units[unit].children = << >>
    /\ \A u \in Descendants(mentioned) : Distance(u, mentioned) <= Distance(unit, mentioned)
    /\ \A i \in DOMAIN children :
          Distance(children[i], mentioned) = Distance(unit, mentioned)
          => Position(children, unit) <= i

\* C9: for a mentioned unit that has children the unit rendered is a leaf at the
\* greatest distance among the descendants of the mentioned unit, never the
\* mentioned unit itself, and of several at the greatest distance the first one
\* met in the list of children.
C9_FurthestChild ==
    (resolved # None /\ lookupTable.units[resolved[1].mentioned].children # << >>)
    => /\ resolved[1].unit # None
       /\ FurthestLeaf(resolved[1].mentioned, resolved[1].unit[1])

\* the resolver of lib/rendering-handlebars-helpers.js alone meets C9
FurthestChildByHelpers ==
    (/\ resolved # None
     /\ resolved[1].by = "lib/rendering-handlebars-helpers.js"
     /\ lookupTable.units[resolved[1].mentioned].children # << >>)
    => /\ resolved[1].unit # None
       /\ FurthestLeaf(resolved[1].mentioned, resolved[1].unit[1])

\* two descendants tie at the greatest distance and the first one met is taken
FurthestChildTie ==
    /\ resolved # None
    /\ resolved[1].unit # None
    /\ \E u \in Descendants(resolved[1].mentioned) :
          /\ u # resolved[1].unit[1]
          /\ Distance(u, resolved[1].mentioned) >= 1
          /\ Distance(u, resolved[1].mentioned)
                = Distance(resolved[1].unit[1], resolved[1].mentioned)

\* the text of the inner block of the layout's defineZone z
DefaultMark(z) == IF z = "Z" THEN Txt("defaultZ") ELSE Txt("defaultY")

\* the layout reads zone z with an inner block that writes DefaultMark(z)
LayoutDefault(z) ==
    \E i \in DOMAIN files["main"].content :
        LET node == files["main"].content[i] IN
        /\ node.k = "defineZone"
        /\ node.name = z
        /\ node.fn # None
        /\ TextN(DefaultMark(z)) \in Range(node.fn[1])

C11_NestingDepth ==
    [][(AtNode("zone") /\ getProcessingUiComponent(runtimeData) # "")
        => /\ Len(runtimeData.processingZones) = 1
              => /\ Len(heap') = Len(heap) + 1
                 /\ Node.name \in DOMAIN heap'[runtimeData.processingZones[1]].subZonesContents
                 /\ Len(heap') \in Range(heap'[runtimeData.processingZones[1]]
                                            .subZonesContents[Node.name])
                 /\ zonesTree' = zonesTree
           /\ Len(runtimeData.processingZones) >= 2
              => /\ response'.status = "500"
                 /\ heap' = heap
                 /\ zonesTree' = zonesTree]_vars

\* C12: the css and js helpers register a resource only when called inside a
\* page or unit with exactly one zone open; called outside a page, outside any
\* zone or inside a sub-zone they raise an error and register nothing.
C12_ResourceHelperGate ==
    [][AtNode("resource")
        => LET provider == getProcessingUiComponent(runtimeData)
               zonesStack == runtimeData.processingZones
           IN IF provider # "" /\ Len(zonesStack) = 1
              THEN LET z == heap[zonesStack[1]].zoneName IN
                   /\ response' = response
                   /\ getResources(zonesTree'[z][1], Node.type) # None
                   /\ \E r \in Range(getResources(zonesTree'[z][1], Node.type)[1]) :
                         r.path = <<provider, Node.path>>
              ELSE /\ response'.status = "500"
                   /\ response'.body = << >>
                   /\ zonesTree' = zonesTree
                   /\ heap' = heap]_vars

\* a resource helper called inside a sub-zone has ended the pass with its error
C12_Witness ==
    /\ response.status = "500"
    /\ response.error = <<"should be used inside a top level zone", "css">>
    /\ \E r \in DOMAIN heap : hasSubZones(heap[r])

\* the resources of a type registered in the zone under test
ResourcesOf(zt, type) ==
    IF getResources(zt["Z"][1], type) = None THEN << >>
    ELSE getResources(zt["Z"][1], type)[1]

\* C13: after any sequence of addResource calls no two resources of a type
\* have the same path; a call with a (type, path) already registered returns
\* false and leaves the resources as they were, whatever its provider and
\* combine flag; any other call returns true and adds the resource.
C13_ResourceDedup ==
    /\ [](\A type \in ResourceTypes :
            \A i \in DOMAIN ResourcesOf(zonesTree, type) :
                \A j \in DOMAIN ResourcesOf(zonesTree, type) :
                    ResourcesOf(zonesTree, type)[i].path = ResourcesOf(zonesTree, type)[j].path
                    => i = j)
    /\ [][returns' # << >>
           => LET call == returns'[1]
                  before == ResourcesOf(zonesTree, call.type)
                  known == \E i \in DOMAIN before : before[i].path = call.path
              IN /\ call.rv = ~known
                 /\ known => zonesTree' = zonesTree
                 /\ ~known => /\ Len(ResourcesOf(zonesTree', call.type)) = Len(before) + 1
                              /\ Last(ResourcesOf(zonesTree', call.type)).path = call.path]_vars

\* a call repeated a registered path and was refused
C13_Witness ==
    /\ returns # << >>
    /\ ~returns[1].rv
    /\ Len(ResourcesOf(zonesTree, returns[1].type)) = 3

\* the positions of s that hold a resource with the combine flag c
WithCombine(s, c) == {i \in DOMAIN s : s[i].combine = c}

\* how often path p appears in the result 'paths', alone or inside a bundle
Appearances(paths, p) ==
    Cardinality({i \in DOMAIN paths : paths[i] = p})
    + Cardinality({<<i, k>> \in (DOMAIN paths) \X (1..4) :
                      /\ Len(paths[i]) > Len(p)
                      /\ k <= Len(paths[i]) - 2
                      /\ <<paths[i][k]>> = p})

\* C15: for the resources of one type, ordered by the index of their
\* providers, every non-combinable resource yields its own path, the combinable
\* ones together yield exactly one bundle path that joins their paths in index
\* order, no bundle path is made when none is combinable, and every registered
\* path appears exactly once in the result.
C15_Bundling ==
    resolved # None
    => LET rs == resolved[1].resources
           paths == resolved[1].paths
           singles == SelectSeq(rs, LAMBDA r : ~r.combine)
           combined == SelectSeq(rs, LAMBDA r : r.combine)
       IN /\ \A i \in DOMAIN rs : \A j \in DOMAIN rs :
                i < j => uiComponent(rs[i].provider).index <= uiComponent(rs[j].provider).index
          /\ Len(paths) = Len(singles) + (IF combined = << >> THEN 0 ELSE 1)
          /\ \A i \in DOMAIN singles : paths[i] = singles[i].path
          /\ combined # << >>
             => Last(paths) = Flatten([i \in DOMAIN combined |-> combined[i].path])
                                 \o <<"combined", resolved[1].type>>
          /\ \A i \in DOMAIN rs : Appearances(paths, rs[i].path) = 1

\* three resources of two providers: one on its own, two in the bundle, the
\* bundle in index order and not in the order of registration
C15_Witness ==
    /\ resolved # None
    /\ Len(resolved[1].resources) = 3
    /\ Cardinality(WithCombine(resolved[1].resources, TRUE)) = 2
    /\ resolved[1].paths = <<<<"b">>, <<"c", "a", "combined", "css">>>>

\* a defineZone helper is reached that reads a top-level zone some fragment opened
ReadsMainZone ==
    /\ AtNode("defineZone")
    /\ Len(runtimeData.processingDefZones) = 0
    /\ zonesTree[Node.name] # None

\* what the helper reached in this state has put into its HTML after its first
\* step: the HTML it returned, or its buffer when it went on to an inner block
EmittedFirst(stk, stk2) ==
    IF Len(stk2) = Len(stk)
    THEN SubSeq(stk2[Len(stk2)].out, Len(stk[Len(stk)].out) + 1, Len(stk2[Len(stk2)].out))
    ELSE stk2[Len(stk) + 1].buf

IsTag(tok) == tok[1] \in {"link", "script"}

\* where the path of resource r stands in the HTML e: the tag and the place in it
Places(e, r) ==
    {<<i, k>> \in (DOMAIN e) \X (2..7) :
        /\ IsTag(e[i])
        /\ e[i][1] = (IF r.type = "css" THEN "link" ELSE "script")
        /\ k < Len(e[i])
        /\ e[i][k] = r.path[1]
        /\ e[i][k + 1] = r.path[2]}

Before(a, b) == a[1] < b[1] \/ (a[1] = b[1] /\ a[2] < b[2])

\* every resource of the zone has its tag and the tags precede all other HTML
TagsFirst(e, zone) ==
    /\ \A type \in ResourceTypes : \A i \in DOMAIN ResourcesOf([Z |-> <<zone>>], type) :
          Cardinality(Places(e, ResourcesOf([Z |-> <<zone>>], type)[i])) = 1
    /\ \A i \in DOMAIN e : \A j \in DOMAIN e : (IsTag(e[j]) /\ ~IsTag(e[i])) => j < i

\* C14 as stated: when a top-level zone with resources is emitted, all resource
\* tags come before any HTML content of the zone and the resources of each type
\* stand in ascending order of the index of the fragment that registered them.
C14_ResourcesByIndex ==
    [][(ReadsMainZone /\ hasResources(zonesTree[Node.name][1]))
        => LET zone == zonesTree[Node.name][1]
               e == EmittedFirst(stack, stack')
           IN /\ TagsFirst(e, zone)
              /\ \A type \in ResourceTypes :
                    LET rs == ResourcesOf([Z |-> <<zone>>], type) IN
                    \A i \in DOMAIN rs : \A j \in DOMAIN rs :
                        uiComponent(rs[i].provider).index < uiComponent(rs[j].provider).index
                        => \A a \in Places(e, rs[i]) : \A b \in Places(e, rs[j]) :
                               Before(a, b)]_vars

\* C14, amended: all resource tags come before any HTML content of the zone;
\* of each type the non-combinable resources stand in ascending order of their
\* fragments' index, each in its own tag, and after them comes the one bundle
\* tag, in which the combinable resources stand in ascending order of index.
C14_ResourcesByIndexPerKind ==
    [][(ReadsMainZone /\ hasResources(zonesTree[Node.name][1]))
        => LET zone == zonesTree[Node.name][1]
               e == EmittedFirst(stack, stack')
           IN /\ TagsFirst(e, zone)
              /\ \A type \in ResourceTypes :
                    LET rs == ResourcesOf([Z |-> <<zone>>], type) IN
                    \A i \in DOMAIN rs : \A j \in DOMAIN rs :
                        \A a \in Places(e, rs[i]) : \A b \in Places(e, rs[j]) :
                            /\ (/\ rs[i].combine = rs[j].combine
                                /\ uiComponent(rs[i].provider).index
                                      < uiComponent(rs[j].provider).index)
                               => Before(a, b)
                            /\ (~rs[i].combine /\ rs[j].combine) => a[1] < b[1]
                            /\ (rs[i].combine /\ rs[j].combine) => a[1] = b[1]]_vars

\* zone Y has been read with a page's resource on its own ahead of the bundle
\* that holds a unit's resource, and its content after the tags
C14_Witness ==
    /\ Finished
    /\ \E i \in DOMAIN Body : \E j \in DOMAIN Body :
          /\ i < j
          /\ Body[i] = <<"link", "pC", "c.css">>
          /\ Body[j] = <<"link", "uD", "d.css", "pC", "e.css", "combined", "css">>
          /\ \E k \in DOMAIN Body : j < k /\ Body[k] = Mark("uD", "Y")

\* the inner block of a read of a top-level zone has returned
ResumesMainZone == Returned("defineZone") /\ stack[Len(stack) - 1].mode = "main"

\* the zone read in this step, whether the read is protected and for which unit
ReadZone == IF ReadsMainZone THEN Node.name ELSE stack[Len(stack) - 1].zone
ReadProtected ==
    IF ReadsMainZone
    THEN Node.scope = StrV("protected") /\ Len(runtimeData.processingUnits) > 0
    ELSE stack[Len(stack) - 1].prot
ReadChild ==
    IF ReadsMainZone THEN Last(runtimeData.processingUnits)
    ELSE stack[Len(stack) - 1].child

\* the activations below the helper, and whether the helper returns in this step
ReadBase == IF ReadsMainZone THEN stack ELSE SubSeq(stack, 1, Len(stack) - 2)
ReadReturns(stk2) == Len(stk2) = Len(ReadBase)

\* the HTML the helper adds in this step to what it had before
ReadChunk(stk2) ==
    LET had == IF ReadsMainZone THEN 0 ELSE Len(stack[Len(stack) - 1].buf)
        now == IF ReadReturns(stk2)
               THEN SubSeq(stk2[Len(stk2)].out, Len(ReadBase[Len(ReadBase)].out) + 1,
                           Len(stk2[Len(stk2)].out))
               ELSE stk2[Len(ReadBase) + 1].buf
    IN SubSeq(now, had + 1, Len(now))

\* the fragments of a set in ascending order of their index
RECURSIVE ByIndex(_)
ByIndex(fragments) ==
    IF fragments = {} THEN << >>
    ELSE LET first == CHOOSE p \in fragments : \A q \in fragments :
                          uiComponent(p).index <= uiComponent(q).index
         IN <<first>> \o ByIndex(fragments \ {first})

\* the content entries of a zone, provider by provider in ascending order of the
\* providers' index, the entries of one provider in the order they were written
EntriesByIndex(zone) ==
    LET ps == ByIndex(DOMAIN zone.contents)
    IN Flatten([k \in DOMAIN ps |-> zone.contents[ps[k]]])

PlaceOf(entries, ref) == CHOOSE k \in DOMAIN entries : entries[k] = ref

\* the entries the helper passes in this step: from the entry whose inner block
\* has returned, or from the first one, up to the entry whose inner block it
\* evaluates next, or to the last one
ReadRange(rd2, stk2) ==
    LET entries == EntriesByIndex(zonesTree[ReadZone][1])
        from == IF ReadsMainZone THEN 1
                ELSE PlaceOf(entries, Last(runtimeData.processingDefZones))
        upto == IF ReadReturns(stk2) THEN Len(entries)
                ELSE PlaceOf(entries, Last(rd2.processingDefZones)) - 1
    IN SubSeq(entries, from, upto)

ContentsOfEntries(refs) == Flatten([k \in DOMAIN refs |-> getContent(heap[refs[k]])])

\* what the helper has in hand before the contents of this step: the resource
\* tags at its start, the HTML of the inner block when that has returned
ReadLead(stk2) ==
    IF ReadsMainZone
    THEN SubSeq(ReadChunk(stk2), 1,
                Cardinality({i \in DOMAIN ReadChunk(stk2) : IsTag(ReadChunk(stk2)[i])}))
    ELSE Top.out

\* C16: the HTML of a top-level zone is emitted provider by provider in
\* ascending order of the providers' index, whatever the order in which the
\* fragments wrote to the zone, and every unit has a lower index than every
\* page, so the content of unit providers precedes that of page providers.
C16_ProvidersByIndex ==
    /\ [](\A u \in DOMAIN lookupTable.units : \A p \in DOMAIN lookupTable.pages :
            lookupTable.units[u].index < lookupTable.pages[p].index)
    /\ [][((ReadsMainZone \/ ResumesMainZone) /\ ~ReadProtected)
           => ReadChunk(stack') = ReadLead(stack')
                  \o ContentsOfEntries(ReadRange(runtimeData', stack'))]_vars

\* zone Y has been read where the page wrote to it before the unit did, and the
\* unit's content stands before the page's content in the answer
C16_Witness ==
    /\ Finished
    /\ zonesTree["Y"] # None
    /\ zonesTree["Y"][1].providers = <<"pC", "uD">>
    /\ \E i \in DOMAIN Body : \E j \in DOMAIN Body :
          i < j /\ Body[i] = Mark("uD", "Y") /\ Body[j] = Mark("pC", "Y")

\* the entries of a protected read's range that the read emits
OfChildAndFresh(ref) == heap[ref].provider = ReadChild /\ ~heap[ref].expired

\* C17: a defineZone read with scope=protected made while a unit is rendered
\* emits only entries whose provider is the unit on top of the unit stack, marks
\* every entry it emits expired and never emits an expired entry; entries expire
\* in no other way, so no entry is emitted twice by protected reads.
C17_ProtectedScope ==
    [][LET protected == (ReadsMainZone \/ ResumesMainZone) /\ ReadProtected IN
       /\ protected
          => LET range == ReadRange(runtimeData', stack')
                 emitted == SelectSeq(range, OfChildAndFresh)
             IN /\ ReadChunk(stack') = ReadLead(stack') \o ContentsOfEntries(emitted)
                /\ ~ReadReturns(stack')
                   => OfChildAndFresh(Last(runtimeData'.processingDefZones))
                /\ DOMAIN heap' = DOMAIN heap
                /\ \A ref \in DOMAIN heap :
                      heap'[ref].expired
                        = (heap[ref].expired \/ \E k \in DOMAIN emitted : emitted[k] = ref)
       /\ ~protected
          => \A ref \in DOMAIN heap \cap DOMAIN heap' :
                 heap'[ref].zoneName = heap[ref].zoneName
                 => heap'[ref].expired = heap[ref].expired]_vars

\* a unit's content in zone Z has been emitted by the protected read of its
\* parent, is expired, and the protected read of the grandparent that followed
\* has emitted nothing: the content is in the answer once from the protected
\* reads and once from the layout's read
C17_Witness ==
    /\ Finished
    /\ \E ref \in DOMAIN heap : heap[ref].expired /\ heap[ref].provider = "uC"
    /\ Count(Body, Mark("uC", "Z")) = 2
    /\ Count(Body, Txt("defaultZ.uA")) = 0

\* a defineZone helper is reached inside the inner block of another one
ReadsSubZone == AtNode("defineZone") /\ Len(runtimeData.processingDefZones) > 0
\* the inner block of a read of a sub-zone has returned
ResumesSubZone == Returned("defineZone") /\ stack[Len(stack) - 1].mode = "sub"

\* the content entry the sub-zone is read under: the top of the define-zone
\* stack when the read starts, the one below the entry the read is at later
SubZoneParent ==
    IF ReadsSubZone THEN Last(runtimeData.processingDefZones)
    ELSE runtimeData.processingDefZones[Len(runtimeData.processingDefZones) - 1]
SubZoneName == IF ReadsSubZone THEN Node.name ELSE stack[Len(stack) - 1].zone
SubZoneRecorded == SubZoneName \in DOMAIN heap[SubZoneParent].subZonesContents

SubBase == IF ReadsSubZone THEN stack ELSE SubSeq(stack, 1, Len(stack) - 2)
SubReturns(stk2) == Len(stk2) = Len(SubBase)

\* the HTML the read of the sub-zone adds in this step
SubChunk(stk2) ==
    LET had == IF ReadsSubZone THEN 0 ELSE Len(stack[Len(stack) - 1].buf)
        now == IF SubReturns(stk2)
               THEN SubSeq(stk2[Len(stk2)].out, Len(SubBase[Len(SubBase)].out) + 1,
                           Len(stk2[Len(stk2)].out))
               ELSE stk2[Len(SubBase) + 1].buf
    IN SubSeq(now, had + 1, Len(now))

\* the recorded entries the read passes in this step
SubRange(rd2, stk2) ==
    LET entries == heap[SubZoneParent].subZonesContents[SubZoneName]
        from == IF ReadsSubZone THEN 1
                ELSE PlaceOf(entries, Last(runtimeData.processingDefZones))
        upto == IF SubReturns(stk2) THEN Len(entries)
                ELSE PlaceOf(entries, Last(rd2.processingDefZones)) - 1
    IN SubSeq(entries, from, upto)

C18_WitnessDefault ==
    /\ Finished
    /\ \E ref \in DOMAIN heap : DOMAIN heap[ref].subZonesContents = {"Y"}
    /\ Txt("defaultS") \in Range(Body)

\* the router is about to answer a request for a page it has found
RoutesToPage ==
    /\ stack = << >>
    /\ response.status = "none"
    /\ getPageData(request.uri, lookupTable.uriPagesMap, 1) # None
RequestedPage == lookupTable.pages[getPageData(request.uri, lookupTable.uriPagesMap, 1)[1]]

\* the requested page is enabled and not anonymous
GatedPage ==
    LET d == RequestedPage.definition
    IN /\ ~(d["disabled"] # None /\ parseBoolean(d["disabled"][1], FALSE))
       /\ ~(d["isAnonymous"] # None /\ parseBoolean(d["isAnonymous"][1], FALSE))
NoUser == request.user = None
LacksPermission ==
    /\ request.user # None
    /\ RequestedPage.definition["permissions"] # None
    /\ \E i \in DOMAIN RequestedPage.definition["permissions"][1] :
          RequestedPage.definition["permissions"][1][i] \notin request.user[1].permissions

\* no composition pass is started by this step
NoPassStarted ==
    /\ stack' = << >>
    /\ UNCHANGED <<zonesTree, heap, runtimeData, renderedUnits, trace>>

\* C19 as stated: a request that fails the gate of a page, with no user on a
\* non-anonymous page or with a user who lacks a permission of the page, is
\* answered with a redirect, never an error status, and starts no pass.
C19_GateRedirects ==
    [][(RoutesToPage /\ GatedPage /\ (NoUser \/ LacksPermission))
        => (response'.status = "redirect" /\ NoPassStarted)]_vars

\* C19, amended: with no user on a non-anonymous page the request is answered
\* with a redirect, with a user who lacks a permission of the page it is
\* answered with status 403; no pass is started in either case.
C19_GateRedirectsOrForbids ==
    [][(RoutesToPage /\ GatedPage)
        => /\ NoUser => (response'.status = "redirect" /\ NoPassStarted)
           /\ LacksPermission => (response'.status = "403" /\ NoPassStarted)]_vars

\* a user who lacks a permission of the page has been answered with 403
C19_Witness ==
    /\ response.status = "403"
    /\ request.user # None
    /\ stack = << >>
    /\ trace = << >>

\* a visitor without a session has been redirected
C19_WitnessRedirect ==
    /\ response.status = "redirect"
    /\ request.user = None
    /\ trace = << >>

\* the pass ends in this step without the root template having returned
Aborts ==
    /\ response.status = "rendering"
    /\ stack' = << >>
    /\ ~(Len(stack) = 1 /\ Top.f = "tpl" /\ Top.i > Len(Top.nodes))

\* misuse and missing references the helper reached in this state must refuse
UnknownUnit == AtNode("unit") /\ Node.name \notin DOMAIN lookupTable.units
ResourceMisuse ==
    /\ AtNode("resource")
    /\ \/ getProcessingUiComponent(runtimeData) = ""
       \/ Len(runtimeData.processingZones) # 1
ZoneNestingMisuse ==
    /\ AtNode("zone")
    /\ getProcessingUiComponent(runtimeData) # ""
    /\ Len(runtimeData.processingZones) >= 2

Answered500 == response'.status = "500" /\ response'.body = << >>

\* C20: any error raised during the composition pass (unknown unit or page,
\* unreadable template or layout, resource helper or zone nesting misuse,
\* exception from a component script) aborts the render and the request is
\* answered with exactly one HTTP 500 and no rendered HTML body.
C20_ErrorsGive500 ==
    [][/\ Aborts => Answered500
       /\ (UnknownUnit \/ ResourceMisuse \/ ZoneNestingMisuse) => Aborts
       /\ response.status = "500" => response' = response]_vars

\* a pass has ended early and the router has sent no answer
C20_Unanswered == response.status = "unanswered" /\ stack = << >> /\ trace # << >>

\* the request path matches no registered page URI pattern
NoPatternMatches ==
    \A i \in DOMAIN lookupTable.uriPagesMap :
        ~match(request.uri, lookupTable.uriPagesMap[i].key)

\* C21: when the request path matches no registered page URI pattern the router
\* answers 404 and returns: no zone model is created, no helper runs and no
\* template is evaluated, then or later.
C21_NotFound ==
    [][/\ (stack = << >> /\ response.status = "none" /\ NoPatternMatches)
          => (response' = [NoResponse EXCEPT !.status = "404"] /\ NoPassStarted)
       /\ response.status = "404" => UNCHANGED vars]_vars

\* a request for a path no page is registered for has been answered with 404
\* while pages are registered for other paths
C21_Witness ==
    /\ response.status = "404"
    /\ NoPatternMatches
    /\ lookupTable.uriPagesMap # << >>
    /\ trace = << >>
    /\ \A z \in ZoneNames : zonesTree[z] = None


(***************************************************************************)
(* Properties of the lookup-table build                                    *)
(***************************************************************************)
\* the table a call of getLookupTable has just built and returned
Built(r) == returns[r] # None /\ returns[r][1].status = "built"
BuiltTable(r) == heap[returns[r][1].table]
Failed(r) == returns[r] # None /\ returns[r][1].status = "error"

\* the definition file of a component as it is on the disk
OwnDefinition(dirs, name) ==
    dirs[CHOOSE i \in DOMAIN dirs : dirs[i].fullName = name].definition
Listed(dirs, name) == \E i \in DOMAIN dirs : dirs[i].fullName = name

\* the value of field k in the definition file of the component, or in that of
\* the nearest ancestor whose definition file has the field
RECURSIVE NearestValue(_, _, _, _)
NearestValue(dirs, name, k, fuel) ==
    IF ~Listed(dirs, name) THEN None
    ELSE LET own == OwnDefinition(dirs, name) IN
         IF own[k] # None THEN own[k]
         ELSE IF own["extends"] = None \/ fuel = 0 THEN None
         ELSE NearestValue(dirs, own["extends"][1][2], k, fuel - 1)

ScalarKeys == DefKeys \ ArrayKeys

ScalarsOverride(components, dirs) ==
    \A n \in DOMAIN components : \A k \in ScalarKeys :
        components[n].definition[k] = NearestValue(dirs, n, k, MaxParents)

\* C27: in a built table every scalar field of every component's merged
\* definition is the component's own value when its definition file has the
\* field, and else the value of the nearest ancestor that has it, in whatever
\* order the directory listing gave the components.
C27_ScalarOverride ==
    \A r \in DOMAIN request :
        Built(r) => /\ ScalarsOverride(BuiltTable(r).pages, files.pageDirs)
                    /\ ScalarsOverride(BuiltTable(r).units, files.unitDirs)

\* pC, listed first, has the field from pA two levels up, and pB keeps its own
C27_Witness ==
    \E r \in DOMAIN request :
        /\ Built(r)
        /\ Listed(files.pageDirs, "pB")
        /\ files.pageDirs[1].fullName = "pC"
        /\ OwnDefinition(files.pageDirs, "pC")["isAnonymous"] = None
        /\ BuiltTable(r).pages["pC"].definition["isAnonymous"] = Some(StrV("pA"))

\* pC has its own value although pB and pA define the field as well
C27_WitnessOwn ==
    \E r \in DOMAIN request :
        /\ Built(r)
        /\ Listed(files.pageDirs, "pB")
        /\ OwnDefinition(files.pageDirs, "pB")["isAnonymous"] # None
        /\ OwnDefinition(files.pageDirs, "pA")["isAnonymous"] # None
        /\ BuiltTable(r).pages["pC"].definition["isAnonymous"] = Some(StrV("pC"))


\* the ancestors of a component by the definition files, nearest first
RECURSIVE AncestorsOnDisk(_, _, _)
AncestorsOnDisk(dirs, name, fuel) ==
    IF ~Listed(dirs, name) \/ fuel = 0 \/ OwnDefinition(dirs, name)["extends"] = None
    THEN << >>
    ELSE LET pn == OwnDefinition(dirs, name)["extends"][1][2]
         IN <<pn>> \o AncestorsOnDisk(dirs, pn, fuel - 1)

DefinesArray(dirs, name, k) ==
    /\ Listed(dirs, name)
    /\ OwnDefinition(dirs, name)[k] # None
    /\ IsArray(k, OwnDefinition(dirs, name)[k][1])

OwnArraysWin(components, dirs) ==
    \A n \in DOMAIN components : \A k \in ArrayKeys :
        (/\ DefinesArray(dirs, n, k)
         /\ \E a \in Range(AncestorsOnDisk(dirs, n, MaxParents)) : DefinesArray(dirs, a, k))
        => components[n].definition[k] = OwnDefinition(dirs, n)[k]

\* C28: in a built table, a component whose definition file has an array
\* field that one of its ancestors has as well holds its own array, whole and
\* unchanged, in its merged definition.
C28_OwnArrayWins ==
    \A r \in DOMAIN request :
        Built(r) => /\ OwnArraysWin(BuiltTable(r).pages, files.pageDirs)
                    /\ OwnArraysWin(BuiltTable(r).units, files.unitDirs)


\* a component that no component of the listing extends, directly or not
LeafOnDisk(dirs, name) ==
    \A i \in DOMAIN dirs :
        name \notin Range(AncestorsOnDisk(dirs, dirs[i].fullName, MaxParents))

\* what a page definition lacks, by the definition files of the page and its
\* ancestors
PageFault(dirs, name, layouts) ==
    LET Field(k) == NearestValue(dirs, name, k, MaxParents) IN
    IF ~Truthy(Field("version")) THEN "no version"
    ELSE IF ~Truthy(Field("uri")) THEN "no URI"
    ELSE IF ~Truthy(Field("layout")) THEN "no layout"
    ELSE IF Field("layout")[1][2] \notin layouts THEN "layout does not exist"
    ELSE "none"
PageFaults == {"no version", "no URI", "no layout", "layout does not exist"}

CompletePage(page, layouts) ==
    /\ Truthy(page.definition["version"])
    /\ Truthy(page.definition["uri"])
    /\ Truthy(page.definition["layout"])
    /\ page.definition["layout"][1][2] \in layouts
CompleteUnit(unit) ==
    /\ Truthy(unit.definition["version"])
    /\ Truthy(unit.definition["pushedUris"])
         => IsArray("pushedUris", unit.definition["pushedUris"][1])

\* C29 as stated: in a built table the merged definition of every page has a
\* version, a URI and an existing layout, and that of every unit has a version
\* and no pushed URIs that are not an array (a definition that lacks one of
\* them makes the build fail).
C29_InvalidFails ==
    \A r \in DOMAIN request :
        Built(r) => /\ \A n \in DOMAIN BuiltTable(r).pages :
                          CompletePage(BuiltTable(r).pages[n], BuiltTable(r).layouts)
                    /\ \A n \in DOMAIN BuiltTable(r).units :
                          CompleteUnit(BuiltTable(r).units[n])

\* C29 for the components that are not extended: in a built table the merged
\* definition of every page and unit without children is complete, and a build
\* that fails on a page definition names a page of the listing that no page
\* extends and that has this fault; the same for a unit without version.
C29_InvalidLeafFails ==
    \A r \in DOMAIN request :
        /\ Built(r) =>
              /\ \A n \in DOMAIN BuiltTable(r).pages :
                    BuiltTable(r).pages[n].children = << >>
                    => CompletePage(BuiltTable(r).pages[n], BuiltTable(r).layouts)
              /\ \A n \in DOMAIN BuiltTable(r).units :
                    BuiltTable(r).units[n].children = << >>
                    => CompleteUnit(BuiltTable(r).units[n])
        /\ (Failed(r) /\ returns[r][1].error[1] \in PageFaults
                      /\ Listed(files.pageDirs, returns[r][1].error[2])) =>
              LET n == returns[r][1].error[2] IN
              /\ LeafOnDisk(files.pageDirs, n)
              /\ PageFault(files.pageDirs, n, files.layouts) = returns[r][1].error[1]
        /\ (Failed(r) /\ returns[r][1].error[1] = "no version"
                      /\ ~Listed(files.pageDirs, returns[r][1].error[2])) =>
              LET n == returns[r][1].error[2] IN
              /\ Listed(files.unitDirs, n)
              /\ LeafOnDisk(files.unitDirs, n)
              /\ ~Truthy(NearestValue(files.unitDirs, n, "version", MaxParents))
        /\ (Failed(r) /\ returns[r][1].error[1] = "pushed URIs are not an array") =>
              /\ Listed(files.unitDirs, returns[r][1].error[2])
              /\ LeafOnDisk(files.unitDirs, returns[r][1].error[2])

\* the build has failed on the page pC, which inherits version and layout
\* from pA and has no URI
C29_Witness ==
    \E r \in DOMAIN request :
        /\ Failed(r)
        /\ returns[r][1].error = <<"no URI", "pC">>
        /\ OwnDefinition(files.pageDirs, "pC")["extends"] = Some(StrV("pA"))

\* a table has been built although the page pA, which pC extends, has no URI
C29_WitnessExtended ==
    \E r \in DOMAIN request :
        /\ Built(r)
        /\ "pA" \in DOMAIN BuiltTable(r).pages
        /\ BuiltTable(r).pages["pA"].children # << >>
        /\ BuiltTable(r).pages["pA"].definition["uri"] = None


\* the names a table maps URIs to
MappedPages(table) == {table.uriPagesMap[i].value : i \in DOMAIN table.uriPagesMap}
MappedUnits(table) ==
    UNION {Range(table.pushedUnits[i].value) : i \in DOMAIN table.pushedUnits}

Disabled(component) == component.definition["disabled"] \in {Some(BoolV(TRUE))}

RenderableOnly(components, mapped, dirs) ==
    /\ \A n \in mapped :
          /\ n \in DOMAIN components
          /\ components[n].children = << >>
          /\ LeafOnDisk(dirs, n)
          /\ ~Disabled(components[n])
    /\ \A i \in DOMAIN dirs : dirs[i].fullName \in DOMAIN components

\* C30: in a built table every page of uriPagesMap and every unit of
\* pushedUnits has no children and is not disabled, and every component of the
\* directory listings, disabled or extended ones too, is in the pages map or
\* the units map under its full name.
C30_MapsHoldEnabledLeaves ==
    \A r \in DOMAIN request :
        Built(r) =>
            /\ RenderableOnly(BuiltTable(r).pages, MappedPages(BuiltTable(r)),
                              files.pageDirs)
            /\ RenderableOnly(BuiltTable(r).units, MappedUnits(BuiltTable(r)),
                              files.unitDirs)

\* a built table with the extended pA and uA and the disabled pD and uB in
\* its maps by name, and only pC and uD in the URI maps
C30_Witness ==
    \E r \in DOMAIN request :
        /\ Built(r)
        /\ {"pA", "pC", "pD"} \subseteq DOMAIN BuiltTable(r).pages
        /\ BuiltTable(r).pages["pA"].definition["uri"] # None
        /\ Disabled(BuiltTable(r).pages["pD"])
        /\ MappedPages(BuiltTable(r)) = {"pC"}
        /\ {"uA", "uB", "uD"} \subseteq DOMAIN BuiltTable(r).units
        /\ BuiltTable(r).units["uA"].definition["pushedUris"] # None
        /\ Disabled(BuiltTable(r).units["uB"])
        /\ MappedUnits(BuiltTable(r)) = {"uD"}


\* a listing in which the extends references of some component come back to it
CyclicOnDisk(dirs) ==
    \E i \in DOMAIN dirs :
        dirs[i].fullName \in Range(AncestorsOnDisk(dirs, dirs[i].fullName, Len(dirs)))

\* C26: the inheritance chaining of a listing whose extends references
\* contain a cycle comes to its end, and the build throws a load-time error.
C26_CyclesFail ==
    (\/ request[1].pc = "units" /\ CyclicOnDisk(files.unitDirs)
     \/ request[1].pc = "pages" /\ CyclicOnDisk(files.pageDirs))
        ~> Failed(1)

\* the while loop adds a parent to the parents of a component at most once
C26_ParentsOnce ==
    \A r \in DOMAIN request :
        request[r].pc \in {"units", "pages"} =>
            \A n \in DOMAIN heap[request[r].ref][request[r].pc] :
                LET parents == heap[request[r].ref][request[r].pc][n].parents
                IN \A i, j \in DOMAIN parents : parents[i] = parents[j] => i = j


(***************************************************************************)
(* Properties of the cached lookup table                                   *)
(***************************************************************************)
\* the table without the time it was built at
Plain(table) == [k \in DOMAIN table \ {"lmd"} |-> table[k]]

\* the tables a build that runs to its end gives: the units of one of the
\* directories and the pages of one of them, as the directories may change
\* between the two listings
CompleteTables ==
    LET builds == {BuildLookupTable(du.layouts, du.units, dp.pages) :
                      du \in Range(SharedDisks), dp \in Range(SharedDisks)}
    IN {b.table : b \in {x \in builds : x.status = "ok"}}

\* request r leaves getLookupTable in this step, by a throw or with a table
\* from the cache
Leaves(r) ==
    /\ request'[r].pc = "idle"
    /\ request[r].pc # "idle" \/ request'[r].calls # request[r].calls
Throws(r) == Leaves(r) /\ returns'[r] # None /\ returns'[r][1].status = "error"
ReturnsCached(r) == Leaves(r) /\ returns'[r] # None /\ returns'[r][1].status = "cached"

\* C22: a call returns the table of the cache only when caching is enabled
\* and the modification time of the configuration file is still the one the
\* table was built at; after the file is rewritten, or with caching
\* disabled, the call builds a new table.
C22_CacheInvalidation ==
    [][\A r \in DOMAIN request :
          ReturnsCached(r) => /\ files.conf.caching
                              /\ heap[returns'[r][1].table].lmd = files.lmd]_vars

\* with caching disabled the table of the cache is never returned
C22_DisabledRebuilds ==
    [][\A r \in DOMAIN request : ReturnsCached(r) => files.conf.caching]_vars

\* C23: a call of getLookupTable that throws a load-time error leaves the
\* table of the cache as it was, and the cache never holds a table of a build
\* that did not run to its end.
C23_FailedBuildStoresNothing ==
    [][/\ \A r \in DOMAIN request : Throws(r) => lookupTable'.table = lookupTable.table
       /\ lookupTable'.table # None
             => Plain(heap'[lookupTable'.table[1]]) \in CompleteTables]_vars

\* a build has failed on a missing parent while the cache holds the table of
\* an earlier build
C23_Witness ==
    \E r \in DOMAIN request :
        /\ Failed(r)
        /\ returns[r][1].error[1] = "parent does not exist"
        /\ lookupTable.table # None

\* the tables the cache or the last return of a request refers to
Published ==
    {lookupTable.table[i] : i \in DOMAIN lookupTable.table}
    \cup {returns[r][1].table :
             r \in {q \in DOMAIN request : /\ returns[q] # None
                                           /\ returns[q][1].status \in {"cached", "built"}}}

\* C24: every table a request gets from getLookupTable, also while another
\* request builds, is the table of a build that ran to its end, and no step
\* changes a table that the cache or a request refers to.
C24_PublishOnComplete ==
    [][/\ \A ref \in Published : heap'[ref] = heap[ref]
       /\ \A r \in DOMAIN request :
             (returns'[r] # None /\ returns'[r][1].status \in {"cached", "built"})
             => Plain(heap'[returns'[r][1].table]) \in CompleteTables]_vars

\* a request holds the table of the cache while the other request is in the
\* pages of a build of another table
C24_Witness ==
    \E r, q \in DOMAIN request :
        /\ returns[r] # None
        /\ returns[r][1].status = "cached"
        /\ request[q].pc = "pages"
        /\ request[q].ref # returns[r][1].table
        /\ Plain(heap[request[q].ref]) \notin CompleteTables


(***************************************************************************)
(* Properties of two requests rendered at the same time                    *)
(***************************************************************************)
\* the request, its data of the helpers of its Handlebars object
StateOf(q) == IF resolved.running = q THEN RequestState ELSE resolved.parked[q]
HelpersDataOf(q) ==
    IF getHandlebarsEnvironment(q) = getHandlebarsEnvironment(resolved.running)
    THEN HelpersData
    ELSE resolved.helpers[getHandlebarsEnvironment(q)]

\* the templates and resources that only the other request renders
ForeignNames(q) ==
    IF q = 1 THEN {"pD", "uD", "d.css", "d.js", "p.js"}
    ELSE {"pA", "pB", "pC", "uA", "uB", "uC", "c.css"}
Foreign(q, tuple) == \E i \in DOMAIN tuple : tuple[i] \in ForeignNames(q)
ForeignHtml(q, html) == \E i \in DOMAIN html : Foreign(q, html[i])
ForeignContent(q, ref) ==
    \/ heap[ref].provider \in ForeignNames(q)
    \/ ForeignHtml(q, heap[ref].content)

ForeignInZone(q, zone) ==
    \/ zone.owner \in ForeignNames(q)
    \/ Foreign(q, zone.providers)
    \/ \E p \in DOMAIN zone.contents :
          \E i \in DOMAIN zone.contents[p] : ForeignContent(q, zone.contents[p][i])
    \/ /\ zone.resources # None
       /\ \E type \in ResourceTypes :
             /\ zone.resources[1][type] # None
             /\ \E i \in DOMAIN zone.resources[1][type][1] :
                   \/ zone.resources[1][type][1][i].provider \in ForeignNames(q)
                   \/ Foreign(q, zone.resources[1][type][1][i].path)

ForeignInZoneModel(q) ==
    \E z \in ZoneNames :
        /\ HelpersDataOf(q).zonesTree[z] # None
        /\ ForeignInZone(q, HelpersDataOf(q).zonesTree[z][1])

ForeignInStacks(q) ==
    LET rd == HelpersDataOf(q).runtimeData IN
    \/ rd.currentPage \in ForeignNames(q)
    \/ Foreign(q, rd.processingUnits)
    \/ \E i \in DOMAIN rd.processingZones : ForeignContent(q, rd.processingZones[i])
    \/ \E i \in DOMAIN rd.processingDefZones : ForeignContent(q, rd.processingDefZones[i])
    \/ Foreign(q, HelpersDataOf(q).renderedUnits)

ForeignInOutput(q) ==
    \/ ForeignHtml(q, StateOf(q).response.body)
    \/ \E i \in DOMAIN StateOf(q).stack :
          /\ StateOf(q).stack[i].f = "tpl"
          /\ ForeignHtml(q, StateOf(q).stack[i].out)

\* C25: however the steps of two requests follow each other, nothing that
\* the helpers write for one request (zone content, resources, entries of the
\* processing stacks, rendered units, HTML) is in the zone model, the stacks
\* or the output of the other request.
C25_DisjointRequests ==
    \A q \in Requests :
        /\ ~ForeignInZoneModel(q)
        /\ ~ForeignInStacks(q)
        /\ ~ForeignInOutput(q)

\* both requests are answered with their page after their helpers have
\* written zone content in turns
C25_Witness ==
    /\ \A q \in Requests : StateOf(q).response.status = "200"
    /\ \A q \in Requests : StateOf(q).response.body # << >>
    /\ \E i, j, k \in DOMAIN heap :
          /\ i < j /\ j < k
          /\ heap[i].provider \in ForeignNames(2)
          /\ heap[j].provider \in ForeignNames(1)
          /\ heap[k].provider \in ForeignNames(2)

(***************************************************************************)
(* The order of the components after the build                             *)
(***************************************************************************)
\* the tables whose units are sorted and indexed
SortedTables ==
    {heap[r] : r \in {q \in DOMAIN heap :
                        \E rq \in DOMAIN request :
                            /\ returns[rq] # None
                            /\ returns[rq][1].status = "built"
                            /\ returns[rq][1].table = q}}

\* the index a component has in its definition after the chaining, 0 for none
DefinitionIndex(component) ==
    IF component.definition["index"] = None THEN 0 ELSE component.definition["index"][1]

IsAncestor(a, d) == indexOf(d.parents, a.fullName) >= 0
SortsBefore(a, b) == a.index < b.index

\* C31: a component with a smaller index in its definition sorts before one
\* with a larger index; of two components with the same index of which one is
\* an ancestor of the other the descendant sorts before the ancestor; all
\* other components with the same index, or both without one, are in the
\* order of their full names.
C31_GlobalOrdering ==
    \A table \in SortedTables :
        \A na, nb \in DOMAIN table.units :
            LET a == table.units[na]
                b == table.units[nb]
            IN /\ (DefinitionIndex(a) # 0 /\ DefinitionIndex(b) # 0
                     /\ DefinitionIndex(a) < DefinitionIndex(b)) => SortsBefore(a, b)
               /\ (DefinitionIndex(a) # 0 /\ DefinitionIndex(a) = DefinitionIndex(b)
                     /\ IsAncestor(b, a)) => SortsBefore(a, b)
               /\ (DefinitionIndex(a) = DefinitionIndex(b)
                     /\ ~(DefinitionIndex(a) # 0 /\ (IsAncestor(a, b) \/ IsAncestor(b, a)))
                     /\ localeCompare(na, nb) < 0) => SortsBefore(a, b)

\* C39: on the components of a built table compareRawUiComponents is a strict
\* total order: the two directions of a comparison have opposite signs, only a
\* component and itself compare equal, and 'before' is transitive.
C39_StrictTotalOrder ==
    \A table \in SortedTables :
        \A na, nb, nc \in DOMAIN table.units :
            LET a == table.units[na]
                b == table.units[nb]
                c == table.units[nc]
            IN /\ compareRawUiComponents(a, b) = 0 - compareRawUiComponents(b, a)
               /\ (compareRawUiComponents(a, b) = 0) <=> (na = nb)
               /\ (compareRawUiComponents(a, b) < 0 /\ compareRawUiComponents(b, c) < 0)
                   => compareRawUiComponents(a, c) < 0

(***************************************************************************)
(* The parents and children arrays after the build                         *)
(***************************************************************************)
Once(s) == \A i, j \in DOMAIN s : s[i] = s[j] => i = j

\* the components whose definition file names p in extends
DirectChildren(dirs, p) ==
    {dirs[i].fullName : i \in {j \in DOMAIN dirs :
        dirs[j].definition["extends"] = Some(StrV(p))}}

\* the components that reach p by walking extends
DescendantsOnDisk(dirs, p) ==
    {dirs[i].fullName : i \in {j \in DOMAIN dirs :
        p \in Range(AncestorsOnDisk(dirs, dirs[j].fullName, MaxParents))}}

FullChains(components, dirs) ==
    \A n \in DOMAIN components :
        components[n].parents = AncestorsOnDisk(dirs, n, MaxParents)

\* C32 as stated: in a built table the parents of every component are its
\* chain of extends references, nearest first, and the children of every
\* component are exactly the components that name it in extends, each once.
C32_ParentsAndDirectChildren ==
    \A r \in DOMAIN request :
        Built(r) =>
            /\ FullChains(BuiltTable(r).units, files.unitDirs)
            /\ FullChains(BuiltTable(r).pages, files.pageDirs)
            /\ \A p \in DOMAIN BuiltTable(r).units :
                  /\ Once(BuiltTable(r).units[p].children)
                  /\ Range(BuiltTable(r).units[p].children)
                       = DirectChildren(files.unitDirs, p)
            /\ \A p \in DOMAIN BuiltTable(r).pages :
                  /\ Once(BuiltTable(r).pages[p].children)
                  /\ Range(BuiltTable(r).pages[p].children)
                       = DirectChildren(files.pageDirs, p)

\* C32 amended: in a built table the parents of every component are its chain
\* of extends references, nearest first, and the children of every component
\* are exactly the components that have it among their parents (its
\* descendants at every distance), each once.
C32_ParentsAndDescendants ==
    \A r \in DOMAIN request :
        Built(r) =>
            /\ FullChains(BuiltTable(r).units, files.unitDirs)
            /\ FullChains(BuiltTable(r).pages, files.pageDirs)
            /\ \A p \in DOMAIN BuiltTable(r).units :
                  /\ Once(BuiltTable(r).units[p].children)
                  /\ Range(BuiltTable(r).units[p].children)
                       = DescendantsOnDisk(files.unitDirs, p)
            /\ \A p \in DOMAIN BuiltTable(r).pages :
                  /\ Once(BuiltTable(r).pages[p].children)
                  /\ Range(BuiltTable(r).pages[p].children)
                       = DescendantsOnDisk(files.pageDirs, p)

\* a built table in which pC extends pB and pB extends pA: pC has both as
\* parents and pA has both as children
C32_Witness ==
    \E r \in DOMAIN request :
        /\ Built(r)
        /\ "pC" \in DOMAIN BuiltTable(r).pages
        /\ BuiltTable(r).pages["pC"].parents = <<"pB", "pA">>
        /\ Range(BuiltTable(r).pages["pA"].children) = {"pB", "pC"}
        /\ BuiltTable(r).pages["pB"].children = <<"pC">>

(***************************************************************************)
(* The script of a fragment and its super object                           *)
(***************************************************************************)
\* the fragments whose script step has run: the page and the units that are
\* being rendered, each with the map of its kind
RunningFragments ==
    {<<stack[i].page, lookupTable.pages>> :
        i \in {j \in DOMAIN stack : stack[j].f = "page"}}
    \cup {<<stack[i].unit, lookupTable.units>> :
        i \in {j \in DOMAIN stack : stack[j].f = "unit"}}

DefinesOnRequest(n, components) ==
    components[n].scriptFilePath /\ files[n].onRequest

\* C33: for a fragment being rendered the function executed is its own
\* onRequest when its script defines one and else that of the nearest
\* ancestor that defines one; the super object has at depth i the onRequest of
\* the i-th nearest ancestor or null; and super.onRequest, when it is a
\* function, is the function of a strict ancestor of the component whose
\* function is executing.
C33_ScriptResolution ==
    \A fc \in RunningFragments :
        LET c == fc[2][fc[1]]
            owner == executeScript(c, fc[2])
            super == superScript(c, fc[2])
            defining == {i \in DOMAIN c.parents : DefinesOnRequest(c.parents[i], fc[2])}
        IN /\ DefinesOnRequest(c.fullName, fc[2]) => owner = c.fullName
           /\ (~DefinesOnRequest(c.fullName, fc[2]) /\ defining # {})
                => owner = c.parents[CHOOSE i \in defining : \A j \in defining : i <= j]
           /\ (~DefinesOnRequest(c.fullName, fc[2]) /\ defining = {}) => owner = ""
           /\ owner # "" => <<"script", owner>> \in Range(trace)
           /\ Len(super) = Len(c.parents)
           /\ \A i \in DOMAIN super :
                 super[i] = IF i \in defining THEN c.parents[i] ELSE ""
           /\ (owner # "" /\ super # << >> /\ super[1] # "")
                => super[1] \in Range(fc[2][owner].parents)

(***************************************************************************)
(* The same request rendered twice                                         *)
(***************************************************************************)
SecondPassAnswered ==
    resolved # None /\ stack = << >> /\ response.status \notin {"none", "rendering"}

\* C34: the second pass of a request against the same table, files and user
\* is answered as the first pass was: same status, same HTML.
C34_SamePassTwice == SecondPassAnswered => response = resolved[1]

\* both passes wrote zone content and resources and gave the same page, whose
\* zone contents lie at other addresses the second time
C34_Witness ==
    /\ SecondPassAnswered
    /\ response.status = "200"
    /\ Len(response.body) >= 4
    /\ \E z \in ZoneNames :
          /\ zonesTree[z] # None
          /\ Len(zonesTree[z][1].providers) >= 2
          /\ zonesTree[z][1].resources # None

(***************************************************************************)
(* Units rendered by the template of another unit                          *)
(***************************************************************************)
\* the activations of the unit helper in progress, outermost first
UnitFrames(stk) == SelectSeq(stk, LAMBDA fr : fr.f = "unit")

\* the unit whose templates are being evaluated: that of the innermost
\* activation of the unit helper, "" outside every unit
RenderingUnit(stk) ==
    IF UnitFrames(stk) = << >> THEN "" ELSE Last(UnitFrames(stk)).unit

\* the resources registered in a zone model, each with its zone and type
ResourcesIn(zt) ==
    UNION { UNION { {<<z, type, zt[z][1].resources[1][type][1][i]>> :
                        i \in DOMAIN zt[z][1].resources[1][type][1]} :
                    type \in {t \in ResourceTypes : zt[z][1].resources[1][t] # None} } :
            z \in {y \in ZoneNames : zt[y] # None /\ zt[y][1].resources # None} }

\* C35: whatever a step writes while a unit is rendered, a zone content or a
\* resource, has the unit of the innermost unit helper in progress as its
\* provider: the inner unit while it is rendered, again the outer unit once
\* the inner one has returned, and never the page.
C35_NestedUnits ==
    [][RenderingUnit(stack) # ""
        => /\ \A ref \in DOMAIN heap' \ DOMAIN heap :
                 heap'[ref].provider = RenderingUnit(stack)
           /\ \A zr \in ResourcesIn(zonesTree') \ ResourcesIn(zonesTree) :
                 zr[3].provider = RenderingUnit(stack)]_vars

\* uC has written zone content, then uD, rendered by a template of uC, has
\* written content and a resource, and then uC, still being rendered, has
\* written content and a resource again
C35_Witness ==
    /\ RenderingUnit(stack) = "uC"
    /\ \E i, j, k \in DOMAIN heap :
          /\ i < j /\ j < k
          /\ heap[i].provider = "uC"
          /\ heap[j].provider = "uD"
          /\ heap[k].provider = "uC"
    /\ \E a, b \in ResourcesIn(zonesTree) :
          /\ a[3].provider = "uD"
          /\ b[3].provider = "uC" /\ b[3].path = <<"uC", "u.js">>
    /\ "uD" \in Range(renderedUnits)

(***************************************************************************)
(* The processing stacks and the helpers in progress                       *)
(***************************************************************************)
\* the activations above the innermost activation of the unit helper
InnerFrames(stk) ==
    LET us == {i \in DOMAIN stk : stk[i].f = "unit"}
        from == IF us = {} THEN 1 ELSE (CHOOSE i \in us : \A j \in us : j <= i) + 1
    IN SubSeq(stk, from, Len(stk))

\* the zone contents whose block is being evaluated by the zone helpers in
\* progress, and those whose inner block is being evaluated by the defineZone
\* helpers in progress, outermost first
OpenZones(stk) ==
    LET zs == SelectSeq(InnerFrames(stk), LAMBDA fr : fr.f = "zone")
    IN [i \in DOMAIN zs |-> zs[i].ref]
OpenReadSites(stk) ==
    LET ds == SelectSeq(InnerFrames(stk),
                        LAMBDA fr : fr.f = "defineZone" /\ fr.mode # "default")
    IN [i \in DOMAIN ds |-> DZRef(ds[i], zonesTree, heap)]

\* C36: while a pass runs and when it has ended normally, the stack of
\* rendering units holds the units of the unit helpers in progress, and the
\* stacks of open zones and of define-zone read sites hold those of the zone
\* and defineZone helpers in progress inside the innermost unit; so a helper
\* that returns leaves the three stacks as they were when it was entered, a
\* unit starts with empty zone stacks, and the zone around it is the open
\* zone again when it has returned.
C36_StackDiscipline ==
    response.status \in {"rendering", "200"}
    => /\ runtimeData.processingUnits
            = [i \in DOMAIN UnitFrames(stack) |-> UnitFrames(stack)[i].unit]
       /\ runtimeData.processingZones = OpenZones(stack)
       /\ runtimeData.processingDefZones = OpenReadSites(stack)

\* unit uD has returned to the block of zone Z of unit uC, which is the one
\* open zone again, inside the unit helper of uC that the page called from
\* its own block of zone Z
C36_Witness ==
    /\ response.status = "rendering"
    /\ "uD" \in Range(renderedUnits)
    /\ runtimeData.processingUnits = <<"uC">>
    /\ Len(runtimeData.processingZones) = 1
    /\ heap[runtimeData.processingZones[1]].provider = "uC"
    /\ \E i \in DOMAIN stack : stack[i].f = "unit" /\ stack[i].prevProcessingZones # << >>

\* unit uD is rendered in the inner block of a defineZone that is reading a
\* zone content: it runs with an empty stack of read sites, the caller's is
\* kept for its return
C36_WitnessReadSite ==
    /\ response.status = "rendering"
    /\ runtimeData.processingUnits = <<"uD">>
    /\ runtimeData.processingDefZones = << >>
    /\ \E i \in DOMAIN stack : stack[i].f = "unit" /\ stack[i].prevProcessingDefZones # << >>

(***************************************************************************)
(* Reading a zone again                                                    *)
(***************************************************************************)
\* C37: a read of a zone leaves what the zones hold as it was, and it emits
\* the HTML every earlier read of the same zone has emitted since the last
\* write.
C37_RepeatableRead ==
    [][Len(returns') > Len(returns)
        => /\ zonesTree' = zonesTree
           /\ \A i \in DOMAIN returns :
                 returns[i].zone = Last(returns').zone
                 => returns[i].html = Last(returns').html]_vars

(***************************************************************************)
(* A defineZone in the inner block of a defineZone                         *)
(***************************************************************************)
\* the defineZone helpers in progress whose inner block holds the node the
\* template is at, outermost first
EnclosingDefineZones(stk) == SelectSeq(InnerFrames(stk), LAMBDA fr : fr.f = "defineZone")

\* C38: a defineZone in the inner block of another defineZone is resolved as
\* a sub-zone of that zone: the helper never starts to read a top-level zone,
\* and when the enclosing zone was not opened, so that its inner block is the
\* default markup, the inner defineZone has no content to read either and
\* gives its own default markup, or nothing when it has none.
C38_NestedDefineZone ==
    [][(AtNode("defineZone") /\ EnclosingDefineZones(stack) # << >>)
        => IF Len(stack') > Len(stack)
           THEN /\ stack'[Len(stack) + 1].mode # "main"
                /\ Last(EnclosingDefineZones(stack)).mode = "default"
                   => stack'[Len(stack) + 1].mode = "default"
           ELSE Last(EnclosingDefineZones(stack)).mode = "default"
                => stack' = ReturnTo(stack, << >>)]_vars

(***************************************************************************)
(* The user of the session                                                 *)
(***************************************************************************)
\* the login had both parameters and the server authenticated them
LoginAuthenticated(op) ==
    /\ op.operation = "login"
    /\ ~Missing(op.username) /\ ~Missing(op.password)
    /\ ~op.throws
    /\ authenticate(op.username, op.password)

\* the assertion consumer had a login response that passed the validation of
\* its signature, when responses are signed, and decoded to a session
SsoAuthenticated(op) ==
    /\ op.operation = "ssoAcs"
    /\ op.saml # None
    /\ op.saml[1].parses /\ ~op.saml[1].logout
    /\ parseBoolean(files.rsEnabled, FALSE) => op.saml[1].signed
    /\ op.saml[1].session # None
    /\ op.saml[1].session[1].sessionId # ""

\* a logout, or a logout response at the assertion consumer
IsLogout(op) ==
    \/ op.operation = "logout"
    \/ op.operation = "ssoAcs" /\ op.saml # None /\ op.saml[1].parses /\ op.saml[1].logout

====
